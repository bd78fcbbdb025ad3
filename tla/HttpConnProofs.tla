--------------------------- MODULE HttpConnProofs --------------------------
(* Proofs about HttpConn, for any requests, buffer, header and file.       *)
EXTENDS HttpConn, TLAPS, SequenceTheorems, WellFoundedInduction

Texts == Seq(Symbols \cup {"NUL"})
ConnType == [buf : Texts, checked : Nat, start : Nat,
             state : {"REQUESTLINE", "HEADER", "CONTENT"},
             linger : BOOLEAN, clen : {0, BodyLen}, cgi : BOOLEAN]
RespType == [have : Nat, toSend : Nat, off0 : Int, len0 : Int, off1 : Int, len1 : Int,
             iovs : {1, 2}, inHeader : 0..2]
CountType == [requests : Nat, clients : Nat, cutOff : Nat]
Bytes == {"header", "file"} \X Int
Pages == {"armed", "lines", "open", "do_request", "NO_RESOURCE", "FORBIDDEN_REQUEST",
          "BAD_REQUEST", "FILE_REQUEST", "EMPTY_FILE", "sending", "closed"}

Addresses == {"null", "map", "failed", "stale"}

(* The indices of a buffer.                                                *)
Fits(c) == Len(c.buf) <= BufSize /\ c.start <= c.checked /\ c.checked <= Len(c.buf)

(* The values of the variables, records whole.                             *)
ConnOK == conn \in ConnType /\ Fits(conn)
Types ==
    /\ m_TRIGMode \in {0, 1} /\ pc \in Pages
    /\ resp \in RespType /\ m_string \in Texts
    /\ m_file_address \in Addresses /\ maps \in Nat
    /\ sock \in Seq(Symbols) /\ asked \in Seq(Requests) /\ count \in CountType
    /\ out \in Seq(Bytes)

(* A file that is mapped is being answered with.                           *)
WithFile == /\ pc = "FILE_REQUEST" \/ (pc = "sending" /\ resp.iovs = 2)
            /\ m_file_address = "map"

MapsOK ==
    /\ maps <= count.cutOff + (IF WithFile THEN 1 ELSE 0)
    /\ m_file_address \in {"map", "stale"} => maps >= 1
    /\ count.clients <= MaxClients
    /\ count.cutOff + 1 <= count.clients + (IF pc = "closed" THEN 1 ELSE 0)

(* How long the answer is.                                                 *)
Total == HeaderLen + (IF resp.iovs = 2 THEN FileLen ELSE 0)

(* Where m_iv stands in the answer when resp.have of it is sent.           *)
Aligned ==
    IF resp.have < HeaderLen
    THEN /\ resp.off0 = resp.have /\ resp.len0 = HeaderLen - resp.have
         /\ resp.off1 = 0 /\ resp.len1 = FileLen
         /\ resp.have > 0 => resp.inHeader >= 1
    ELSE /\ resp.len0 = 0
         /\ resp.off1 = resp.have - HeaderLen /\ resp.len1 = resp.toSend

(* bytes_have_send is 0 when process_write begins.                         *)
SendingOK ==
    /\ pc = "sending" =>
        /\ resp.toSend > 0
        /\ resp.inHeader < 2 =>
             resp.have + resp.toSend = Total /\ Len(out) = resp.have /\ Aligned
    /\ pc \notin {"sending", "closed"} => resp.have = 0

HInv == ConnOK /\ Types /\ MapsOK /\ SendingOK /\ SentFaithful

USE DEF vars, server, client

-----------------------------------------------------------------------------
(* The parser's operators.                                                 *)
LEMMA MinIs ==
    ASSUME NEW S \in SUBSET Nat, S # {}
    PROVE  Min(S) \in S /\ \A i \in S : Min(S) <= i
<1> DEFINE Before == {ss \in Nat \X Nat : ss[1] < ss[2]}
<1>1. PICK x \in S : \A y \in S : <<y, x>> \notin Before
  <2>1. IsWellFoundedOn(Before, Nat)
    BY NatLessThanWellFounded, Zenon DEF OpToRel
  <2> HIDE DEF Before
  <2> QED
    BY <2>1, WFMin, Zenon
<1>2. \A y \in S : x <= y
  <2>1. \A y \in S : ~(y < x)
    BY <1>1
  <2> HIDE DEF Before
  <2>2. \A y \in S : y \in Nat
    OBVIOUS
  <2> QED
    BY <2>1, <2>2
<1>3. \E i \in S : \A j \in S : i <= j
  BY <1>2
<1> QED
  BY <1>3, Zenon DEF Min

LEMMA FoundIs ==
    ASSUME NEW c \in ConnType, Fits(c)
    PROVE  /\ Found(c) \subseteq Nat
           /\ \A i \in Found(c) : c.checked < i /\ i <= Len(c.buf)
           /\ Found(c) # {} => Min(Found(c)) \in Found(c)
<1>1. c.checked \in Nat /\ Len(c.buf) \in Nat
  BY LenProperties DEF ConnType, Texts
<1>2. Found(c) \subseteq Nat /\ \A i \in Found(c) : c.checked < i /\ i <= Len(c.buf)
  BY <1>1 DEF Found
<1> QED
  BY <1>2, MinIs

LEMMA EndedIs ==
    ASSUME NEW c \in ConnType, Fits(c), LineOk(c), NEW d, d = Ended(c)
    PROVE  /\ d \in ConnType /\ Fits(d) /\ Len(d.buf) = Len(c.buf)
           /\ d.start = c.start /\ d.state = c.state /\ d.linger = c.linger
           /\ d.clen = c.clen /\ d.cgi = c.cgi
<1> DEFINE cr == CHOOSE i \in LineEnd(c) : TRUE
           text == [c.buf EXCEPT ![cr] = "NUL", ![cr + 1] = "NUL"]
<1>1. /\ c.buf \in Texts /\ c.checked \in Nat /\ c.start \in Nat
      /\ Len(c.buf) \in Nat /\ c.start <= c.checked
  BY LenProperties DEF ConnType, Texts, Fits
<1>2. cr \in LineEnd(c)
  BY DEF LineOk
<1>3. cr \in Nat /\ 1 <= cr /\ c.checked <= cr /\ cr + 1 <= Len(c.buf)
  <2>1. Found(c) # {}
    BY <1>2 DEF LineEnd
  <2>2. PICK i : i = Min(Found(c))
    OBVIOUS
  <2>3. i \in Nat /\ c.checked < i /\ i <= Len(c.buf)
    BY <2>1, <2>2, FoundIs
  <2>4. cr \in {i} \cup (IF i > 2 THEN {i - 1} ELSE {}) /\ cr < Len(c.buf)
    <3> HIDE DEF cr
    <3> QED
      BY <1>2, <2>1, <2>2 DEF LineEnd
  <2> HIDE DEF cr
  <2> QED
    BY <1>1, <2>3, <2>4
<1>4. d = [c EXCEPT !.buf = text, !.checked = cr + 1]
  BY DEF Ended
<1> HIDE DEF cr
<1>5. text \in Texts /\ Len(text) = Len(c.buf)
  <2>1. PICK b : b = [c.buf EXCEPT ![cr] = "NUL"]
    OBVIOUS
  <2>2. b \in Texts /\ Len(b) = Len(c.buf)
    BY <1>1, <1>3, <2>1, ExceptSeq DEF Texts
  <2>3. text = [b EXCEPT ![cr + 1] = "NUL"]
    BY <2>1
  <2> HIDE DEF text
  <2> QED
    BY <1>1, <1>3, <2>2, <2>3, ExceptSeq DEF Texts
<1> HIDE DEF text
<1>6. /\ d.buf = text /\ d.checked = cr + 1 /\ d.start = c.start /\ d.state = c.state
      /\ d.linger = c.linger /\ d.clen = c.clen /\ d.cgi = c.cgi
  BY <1>4 DEF ConnType
<1>7. d \in ConnType
  <2>1. PICK at \in Nat : at = cr + 1
    BY <1>3
  <2>2. d = [c EXCEPT !.buf = text, !.checked = at]
    BY <1>4, <2>1
  <2> QED
    BY <1>5, <2>2 DEF ConnType
<1>8. Fits(d)
  BY <1>1, <1>3, <1>5, <1>6 DEF Fits
<1> QED
  BY <1>5, <1>6, <1>7, <1>8

LEMMA ConsumedIs ==
    ASSUME NEW c \in ConnType, Fits(c), NEW d, d = Consumed(c)
    PROVE  /\ d \in ConnType /\ Fits(d) /\ d.buf = c.buf /\ d.checked = c.checked
           /\ d.start = c.checked
           /\ d.state = c.state /\ d.linger = c.linger /\ d.clen = c.clen /\ d.cgi = c.cgi
<1>1. d = [c EXCEPT !.start = c.checked]
  BY DEF Consumed
<1>2. /\ d \in ConnType /\ d.buf = c.buf /\ d.checked = c.checked /\ d.start = c.checked
      /\ d.state = c.state /\ d.linger = c.linger /\ d.clen = c.clen /\ d.cgi = c.cgi
  BY <1>1 DEF ConnType
<1>3. c.checked \in Nat
  BY DEF ConnType
<1> QED
  BY <1>2, <1>3 DEF Fits

LEMMA UnendedIs ==
    ASSUME NEW c \in ConnType, Fits(c), NEW d, d = Unended(c)
    PROVE  /\ d \in ConnType /\ Fits(d) /\ d.buf = c.buf /\ d.start = c.start
<1> DEFINE at == IF Found(c) = {} THEN Len(c.buf) ELSE Min(Found(c)) - 1
<1>1. c.checked \in Nat /\ c.start \in Nat /\ Len(c.buf) \in Nat
  BY LenProperties DEF ConnType, Texts
<1>2. at \in Nat /\ c.checked <= at /\ at <= Len(c.buf)
  <2>1. CASE Found(c) = {}
    BY <1>1, <2>1 DEF Fits
  <2>2. CASE Found(c) # {}
    <3>1. PICK i : i = Min(Found(c))
      OBVIOUS
    <3>2. i \in Nat /\ c.checked < i /\ i <= Len(c.buf)
      BY <2>2, <3>1, FoundIs
    <3> QED
      BY <1>1, <2>2, <3>1, <3>2
  <2> QED
    BY <2>1, <2>2
<1>3. d = [c EXCEPT !.checked = at]
  BY DEF Unended
<1> HIDE DEF at
<1>4. d \in ConnType /\ d.buf = c.buf /\ d.start = c.start /\ d.checked = at
  BY <1>2, <1>3 DEF ConnType
<1> QED
  BY <1>1, <1>2, <1>4 DEF Fits

LEMMA TextIs ==
    ASSUME NEW c \in ConnType, Fits(c)
    PROVE  Text(c) \in Texts
<1> DEFINE nuls == {i \in c.start + 1 .. Len(c.buf) : c.buf[i] = "NUL"}
           to == (IF nuls = {} THEN Len(c.buf) + 1 ELSE Min(nuls)) - 1
<1>1. c.start \in Nat /\ Len(c.buf) \in Nat /\ c.buf \in Texts
  BY LenProperties DEF ConnType, Texts
<1>2. to \in Int /\ to <= Len(c.buf)
  <2>1. nuls \subseteq Nat /\ \A i \in nuls : i <= Len(c.buf)
    BY <1>1
  <2>2. nuls # {} => Min(nuls) \in nuls
    <3> HIDE DEF nuls
    <3> QED
      BY <2>1, MinIs
  <2> HIDE DEF nuls
  <2>3. CASE nuls = {}
    BY <1>1, <2>3
  <2>4. CASE nuls # {}
    <3>1. PICK i \in nuls : i = Min(nuls)
      BY <2>2, <2>4
    <3> QED
      BY <1>1, <2>1, <2>4, <3>1
  <2> QED
    BY <2>3, <2>4
<1>3. Text(c) = SubSeq(c.buf, c.start + 1, to)
  BY DEF Text
<1> HIDE DEF to
<1>4. \A i \in c.start + 1 .. to : c.buf[i] \in Symbols \cup {"NUL"}
  BY <1>1, <1>2, ElementOfSeq DEF Texts
<1>5. c.start + 1 \in Int
  BY <1>1
<1> QED
  BY <1>2, <1>3, <1>4, <1>5, SubSeqProperties DEF Texts

-----------------------------------------------------------------------------
(* The values.                                                             *)
LEMMA ClearedOK == ConnAssumption => Cleared \in ConnType /\ Fits(Cleared)
<1>1. << >> \in Texts /\ Len(<< >>) = 0
  BY EmptySeq DEF Texts
<1> QED
  BY <1>1 DEF ConnAssumption, Cleared, ConnType, Fits

(* A turn of process_read's loop leaves the members in their ranges.       *)
LEMMA ParserStep ==
    ASSUME ConnAssumption, ConnOK, m_string \in Texts, process_read
    PROVE  /\ ConnOK' /\ m_string' \in Texts
           /\ pc \in {"lines", "open"}
           /\ pc' \in {"lines", "open", "armed", "BAD_REQUEST", "do_request"}
           /\ ByParser
<1> DEFINE taken == NextLine
<1>0. conn \in ConnType /\ Fits(conn)
  BY DEF ConnOK
<1>1. LineOk(conn) => taken \in ConnType /\ Fits(taken)
  <2>1. SUFFICES ASSUME LineOk(conn) PROVE taken \in ConnType /\ Fits(taken)
    OBVIOUS
  <2>2. PICK d : d = Ended(conn)
    OBVIOUS
  <2>3. d \in ConnType /\ Fits(d)
    BY <1>0, <2>1, <2>2, EndedIs
  <2>4. taken = Consumed(d)
    BY <2>2 DEF NextLine
  <2> HIDE DEF taken
  <2> QED
    BY <2>3, <2>4, ConsumedIs
<1> HIDE DEF taken
<1>2. ASSUME NEW c \in ConnType, Fits(c), parse_content(c)
      PROVE  /\ ConnOK' /\ m_string' \in Texts /\ pc' \in {"open", "do_request"}
             /\ ByParser
  <2>1. ConnOK'
    <3>1. conn' = Consumed(c)
      BY <1>2 DEF parse_content
    <3> QED
      BY <1>2, <3>1, ConsumedIs DEF ConnOK
  <2>2. m_string' \in Texts
    <3>1. PICK s \in Texts : s = Text(c)
      BY <1>2, TextIs
    <3>2. CASE m_string' = m_string
      BY <3>2
    <3>3. CASE m_string' = SubSeq(s, 1, Min({c.clen, Len(s)}))
      <4>1. PICK k : k = Min({c.clen, Len(s)})
        OBVIOUS
      <4>2. Len(s) \in Nat /\ c.clen \in Nat
        BY <1>2, LenProperties DEF ConnType, Texts, ConnAssumption
      <4>3. k \in Nat /\ k <= Len(s)
        <5>1. PICK S : S = {c.clen, Len(s)}
          OBVIOUS
        <5>2. Len(s) \in S /\ \A i \in S : i = c.clen \/ i = Len(s)
          BY <5>1
        <5>3. S \in SUBSET Nat /\ S # {}
          BY <4>2, <5>2
        <5>4. k \in S /\ k <= Len(s)
          BY <4>1, <5>1, <5>2, <5>3, MinIs
        <5> QED
          BY <5>3, <5>4
      <4>4. \A i \in 1..k : s[i] \in Symbols \cup {"NUL"}
        BY <4>2, <4>3, ElementOfSeq DEF Texts
      <4>5. 1 \in Int /\ k \in Int
        BY <4>3
      <4>6. SubSeq(s, 1, k) \in Seq(Symbols \cup {"NUL"})
        BY <4>4, <4>5, SubSeqProperties
      <4> QED
        BY <3>3, <4>1, <4>6 DEF Texts
    <3> QED
      BY <1>2, <3>1, <3>2, <3>3 DEF parse_content
  <2> QED
    BY <1>2, <2>1, <2>2 DEF parse_content
<1>3. CASE parse_request_line
  <2>1. /\ taken \in ConnType /\ Fits(taken)
        /\ pc = "lines" /\ pc' \in {"lines", "BAD_REQUEST"} /\ m_string' = m_string /\ ByParser
    BY <1>1, <1>3 DEF parse_request_line, TakesLine
  <2>2. \/ conn' = taken
        \/ conn' = [taken EXCEPT !.state = "HEADER", !.cgi = Line = <<"post">>]
    BY <1>3 DEF parse_request_line, taken
  <2>3. ConnOK'
    <3>1. CASE conn' = taken
      BY <2>1, <3>1 DEF ConnOK
    <3>2. CASE conn' = [taken EXCEPT !.state = "HEADER", !.cgi = Line = <<"post">>]
      <4>1. PICK post \in BOOLEAN : post = (Line = <<"post">>)
        OBVIOUS
      <4>2. conn' = [taken EXCEPT !.state = "HEADER", !.cgi = post]
        BY <3>2, <4>1
      <4> QED
        BY <2>1, <4>2 DEF ConnOK, ConnType, Fits
    <3> QED
      BY <2>2, <3>1, <3>2
  <2> QED
    BY <2>1, <2>3
<1>4. CASE parse_headers
  <2>1. /\ taken \in ConnType /\ Fits(taken)
        /\ pc = "lines" /\ pc' = "lines" /\ m_string' = m_string /\ ByParser
    BY <1>1, <1>4 DEF parse_headers, TakesLine
  <2>2. \/ conn' = taken
        \/ conn' = [taken EXCEPT !.linger = TRUE]
        \/ conn' = [taken EXCEPT !.clen = BodyLen]
    BY <1>4 DEF parse_headers, taken
  <2>3. ConnOK'
    BY <2>1, <2>2 DEF ConnOK, ConnType, Fits
  <2> QED
    BY <2>1, <2>3
<1>5. CASE HeaderEnd
  <2>1. /\ taken \in ConnType /\ Fits(taken)
        /\ pc = "lines" /\ pc' \in {"lines", "do_request"} /\ m_string' = m_string /\ ByParser
    BY <1>1, <1>5 DEF HeaderEnd, TakesLine
  <2>2. \/ conn' = taken
        \/ conn' = [taken EXCEPT !.state = "CONTENT"]
    BY <1>5 DEF HeaderEnd, taken
  <2>3. ConnOK'
    BY <2>1, <2>2 DEF ConnOK, ConnType, Fits
  <2> QED
    BY <2>1, <2>3
<1>6. CASE Content
  <2>1. CASE pc = "lines" /\ parse_content(conn)
    BY <1>0, <1>2, <2>1
  <2>2. CASE pc = "open" /\ LineOk(conn) /\ parse_content(Ended(conn))
    <3>1. PICK d : d = Ended(conn)
      OBVIOUS
    <3>2. d \in ConnType /\ Fits(d)
      BY <1>0, <2>2, <3>1, EndedIs
    <3> QED
      BY <1>2, <2>2, <3>1, <3>2
  <2> QED
    BY <1>6, <2>1, <2>2 DEF Content
<1>7. CASE NoRequest
  <2>1. conn' = Unended(conn)
    BY <1>7 DEF NoRequest
  <2> QED
    BY <1>0, <1>7, <2>1, UnendedIs DEF NoRequest, ConnOK
<1> QED
  BY <1>3, <1>4, <1>5, <1>6, <1>7 DEF process_read

LEMMA ConnStep ==
    ASSUME ConnAssumption, ConnOK, Types, [Next]_vars
    PROVE  ConnOK' /\ m_string' \in Texts
<1>1. CASE process_read
  BY <1>1, ParserStep DEF Types
<1>2. CASE UNCHANGED <<conn, m_string>>
  BY <1>2 DEF ConnOK, Fits, Types
<1>3. CASE conn' = Cleared /\ m_string' = m_string
  BY <1>3, ClearedOK DEF ConnOK, Types, Fits
<1>4. CASE \E n \in 1..BufSize : Reads(n)
  <2>1. PICK n \in 1..BufSize : Reads(n)
    BY <1>4
  <2>2. /\ conn \in ConnType /\ Fits(conn) /\ n \in Nat /\ 1 <= n /\ n <= Len(sock)
        /\ Len(conn.buf) + n <= BufSize /\ BufSize \in Nat /\ Len(sock) \in Nat
        /\ m_string' = m_string /\ sock \in Seq(Symbols)
        /\ conn' = [conn EXCEPT !.buf = conn.buf \o SubSeq(sock, 1, n)]
    BY <2>1, LenProperties DEF Reads, ConnOK, Types, ConnAssumption
  <2>3. PICK piece : piece = SubSeq(sock, 1, n)
    OBVIOUS
  <2>4. piece \in Texts /\ Len(piece) = n
    <3>1. \A i \in 1..n : sock[i] \in Symbols \cup {"NUL"}
      BY <2>2, ElementOfSeq
    <3> QED
      BY <2>2, <2>3, <3>1, SubSeqProperties DEF Texts
  <2>5. PICK buf : buf = conn.buf \o piece
    OBVIOUS
  <2>6. conn.buf \in Texts /\ Len(conn.buf) \in Nat
    BY <2>2, LenProperties DEF ConnType, Texts
  <2>7. buf \in Texts /\ Len(buf) = Len(conn.buf) + n
    BY <2>4, <2>5, <2>6, ConcatProperties DEF Texts
  <2>8. conn' = [conn EXCEPT !.buf = buf]
    BY <2>2, <2>3, <2>5
  <2>9. conn' \in ConnType /\ conn'.buf = buf /\ conn'.start = conn.start
        /\ conn'.checked = conn.checked
    BY <2>2, <2>7, <2>8 DEF ConnType
  <2>10. Fits(conn)'
    <3>1. conn.checked \in Nat
      BY <2>2 DEF ConnType
    <3>2. /\ conn.checked <= Len(conn.buf) + n /\ Len(conn.buf) + n <= BufSize
          /\ conn.start <= conn.checked
      BY <2>2, <2>6, <3>1 DEF Fits
    <3>3. /\ Len(conn'.buf) <= BufSize /\ conn'.start <= conn'.checked
          /\ conn'.checked <= Len(conn'.buf)
      BY <2>7, <2>9, <3>2
    <3> QED
      BY <3>3 DEF Fits
  <2> QED
    BY <2>2, <2>9, <2>10 DEF ConnOK, Types
<1> QED
  BY <1>1, <1>2, <1>3, <1>4 DEF Next, Serve, Send, HangUp, Accept, WriteFails, BufferFull,
     do_request, process_write, NoAnswer, write, Writev, WritevLast, init

(* The counts and m_iv after n bytes.                                      *)
Moved(r, n) ==
    /\ r \in RespType
    /\ r.have = resp.have + n /\ r.toSend = resp.toSend - n /\ r.iovs = resp.iovs
    /\ resp.inHeader <= r.inHeader
    /\ r.have < HeaderLen => r.inHeader >= 1
    /\ r.have < HeaderLen /\ resp.inHeader >= 1 => r.inHeader = 2
    /\ \/ /\ r.have >= resp.len0
          /\ r.len0 = 0 /\ r.off1 = r.have - HeaderLen /\ r.len1 = r.toSend
       \/ /\ r.have < resp.len0
          /\ r.off0 = r.have /\ r.len0 = resp.len0 - r.have
          /\ r.off1 = resp.off1 /\ r.len1 = resp.len1

LEMMA RespFields ==
    ASSUME NEW r \in RespType
    PROVE  /\ r.have \in Nat /\ r.toSend \in Nat
           /\ r.off0 \in Int /\ r.len0 \in Int /\ r.off1 \in Int /\ r.len1 \in Int
           /\ r.iovs \in {1, 2} /\ r.inHeader \in 0..2
BY DEF RespType

LEMMA Sizes == ConnAssumption =>
    /\ HeaderLen \in Nat \ {0} /\ FileLen \in Nat \ {0}
    /\ BufSize \in Nat \ {0} /\ BodyLen \in Nat \ {0} /\ MaxClients \in Nat \ {0}
BY DEF ConnAssumption

LEMMA AdvancedIs ==
    ASSUME ConnAssumption, resp \in RespType, NEW n \in Nat, n <= resp.toSend,
           NEW r, r = Advanced(Sent(n))
    PROVE  Moved(r, n)
<1> DEFINE have == resp.have + n
           left == resp.toSend - n
           writes == IF have < HeaderLen THEN Min({resp.inHeader + 1, 2}) ELSE resp.inHeader
<1>1. /\ HeaderLen \in Nat /\ resp.have \in Nat /\ resp.toSend \in Nat
      /\ resp.off0 \in Int /\ resp.len0 \in Int /\ resp.off1 \in Int /\ resp.len1 \in Int
      /\ resp.inHeader \in 0..2
  <2>1. HeaderLen \in Nat
    BY Sizes
  <2> QED
    BY <2>1, RespFields
<1>2. have \in Nat /\ left \in Nat
  <2>1. PICK h, s : h = resp.have /\ s = resp.toSend
    OBVIOUS
  <2>2. h \in Nat /\ s \in Nat /\ n <= s
    BY <1>1, <2>1
  <2>3. h + n \in Nat /\ s - n \in Nat
    BY <2>2
  <2> QED
    BY <2>1, <2>3
<1>3. /\ writes \in 0..2 /\ resp.inHeader <= writes
      /\ have < HeaderLen => writes >= 1
      /\ have < HeaderLen /\ resp.inHeader >= 1 => writes = 2
  <2>1. PICK m : m = Min({resp.inHeader + 1, 2})
    OBVIOUS
  <2>2. PICK S : S = {resp.inHeader + 1, 2}
    OBVIOUS
  <2>3. /\ 2 \in S /\ resp.inHeader + 1 \in S
        /\ \A i \in S : i = resp.inHeader + 1 \/ i = 2
    BY <2>2
  <2>4. S \in SUBSET Nat /\ S # {}
    BY <1>1, <2>3, SMTT(30)
  <2>5. m \in S /\ m <= 2 /\ m <= resp.inHeader + 1
    BY <2>1, <2>2, <2>3, <2>4, MinIs
  <2>6. m \in 0..2 /\ resp.inHeader <= m /\ m >= 1 /\ (resp.inHeader >= 1 => m = 2)
    BY <1>1, <2>3, <2>5, SMTT(30)
  <2>7. writes = IF have < HeaderLen THEN m ELSE resp.inHeader
    BY <2>1
  <2> HIDE DEF have, writes
  <2> QED
    BY <1>1, <2>6, <2>7
<1>4. Sent(n) = [resp EXCEPT !.have = have, !.toSend = left, !.inHeader = writes]
  BY DEF Sent
<1>5. PICK s : s = Sent(n)
  OBVIOUS
<1> HIDE DEF have, left, writes
<1>6. /\ s \in RespType /\ s.have = have /\ s.toSend = left /\ s.inHeader = writes
      /\ s.iovs = resp.iovs /\ s.off0 = resp.off0 /\ s.len0 = resp.len0
      /\ s.off1 = resp.off1 /\ s.len1 = resp.len1
  BY <1>2, <1>3, <1>4, <1>5 DEF RespType
<1>7. CASE have >= resp.len0
  <2>1. PICK off1 \in Int : off1 = have - HeaderLen
    BY <1>1, <1>2
  <2>2. r = [s EXCEPT !.len0 = 0, !.off1 = off1, !.len1 = left]
    BY <1>5, <1>6, <1>7, <2>1 DEF Advanced
  <2>3. 0 \in Int /\ left \in Int
    BY <1>2
  <2>4. r \in RespType
    BY <1>6, <2>2, <2>3 DEF RespType
  <2>5. /\ r.have = have /\ r.toSend = left /\ r.inHeader = writes
        /\ r.iovs = resp.iovs /\ r.len0 = 0 /\ r.off1 = off1 /\ r.len1 = left
    BY <1>6, <2>2 DEF RespType
  <2> QED
    BY <1>3, <1>7, <2>1, <2>4, <2>5 DEF Moved, have, left
<1>8. CASE ~(have >= resp.len0)
  <2>1. PICK len0 \in Int : len0 = resp.len0 - have
    BY <1>1, <1>2
  <2>2. r = [s EXCEPT !.off0 = have, !.len0 = len0]
    BY <1>5, <1>6, <1>8, <2>1 DEF Advanced
  <2>3. have \in Int
    BY <1>2
  <2>4. r \in RespType
    BY <1>6, <2>2, <2>3 DEF RespType
  <2>5. /\ r.have = have /\ r.toSend = left /\ r.inHeader = writes
        /\ r.iovs = resp.iovs /\ r.off0 = have /\ r.len0 = len0
        /\ r.off1 = resp.off1 /\ r.len1 = resp.len1
    BY <1>6, <2>2 DEF RespType
  <2>6. have < resp.len0
    BY <1>1, <1>2, <1>8
  <2> QED
    BY <1>3, <2>1, <2>4, <2>5, <2>6 DEF Moved, have, left
<1> QED
  BY <1>7, <1>8

LEMMA GatheredIs ==
    ASSUME resp \in RespType, NEW n \in Nat, NEW g, g = Gathered(n)
    PROVE  /\ g \in Seq(Bytes) /\ Len(g) = n
           /\ \A i \in 1..n :
                g[i] = IF i <= resp.len0 THEN <<"header", resp.off0 + i - 1>>
                       ELSE <<"file", resp.off1 + i - resp.len0 - 1>>
<1>1. /\ resp.off0 \in Int /\ resp.len0 \in Int /\ resp.off1 \in Int
  BY DEF RespType
<1>2. \A i \in 1..n :
        g[i] = IF i <= resp.len0 THEN <<"header", resp.off0 + i - 1>>
               ELSE <<"file", resp.off1 + i - resp.len0 - 1>>
  BY DEF Gathered
<1>3. \A i \in 1..n : g[i] \in Bytes
  <2>1. ASSUME NEW i \in 1..n PROVE g[i] \in Bytes
    <3>1. PICK a, b : a = resp.off0 + i - 1 /\ b = resp.off1 + i - resp.len0 - 1
      OBVIOUS
    <3>2. a \in Int /\ b \in Int
      BY <1>1, <3>1
    <3>3. g[i] = <<"header", a>> \/ g[i] = <<"file", b>>
      BY <1>2, <3>1
    <3> QED
      BY <3>2, <3>3 DEF Bytes
  <2> QED
    BY <2>1
<1>4. DOMAIN g = 1..n /\ g = [i \in 1..n |-> g[i]]
  BY DEF Gathered
<1>5. g \in [1..n -> Bytes]
  BY <1>3, <1>4
<1>6. g \in Seq(Bytes)
  BY <1>5, SeqDef
<1> QED
  BY <1>2, <1>4, <1>6, LenProperties

(* write: the members after a writev of n bytes.                           *)
LEMMA WrittenStep ==
    ASSUME ConnAssumption, resp \in RespType, out \in Seq(Bytes), NEW n \in Nat,
           n <= resp.toSend, out' = out \o Gathered(n),
           \/ resp' = Advanced(Sent(n))
           \/ resp' = [Advanced(Sent(n)) EXCEPT !.have = 0]
    PROVE  resp' \in RespType /\ resp'.iovs = resp.iovs /\ out' \in Seq(Bytes)
<1>1. PICK r : r = Advanced(Sent(n))
  OBVIOUS
<1>2. r \in RespType /\ r.iovs = resp.iovs
  BY <1>1, AdvancedIs DEF Moved
<1>3. resp' \in RespType /\ resp'.iovs = resp.iovs
  <2>1. CASE resp' = r
    BY <1>2, <2>1
  <2>2. CASE resp' = [r EXCEPT !.have = 0]
    <3>1. PICK s : s = [r EXCEPT !.have = 0]
      OBVIOUS
    <3>2. s \in RespType
      BY <1>2, <3>1 DEF RespType
    <3>3. s.iovs = r.iovs
      BY <1>2, <3>1 DEF RespType
    <3> QED
      BY <1>2, <2>2, <3>1, <3>2, <3>3
  <2> QED
    BY <1>1, <2>1, <2>2
<1>4. out' \in Seq(Bytes)
  <2>1. PICK g : g = Gathered(n)
    OBVIOUS
  <2> QED
    BY <2>1, GatheredIs, ConcatProperties
<1> QED
  BY <1>3, <1>4

LEMMA WriteStep ==
    ASSUME ConnAssumption, Types, write
    PROVE  /\ pc = "sending" /\ resp' \in RespType /\ resp'.iovs = resp.iovs
           /\ out' \in Seq(Bytes)
           /\ \/ /\ pc' = pc /\ UNCHANGED <<m_file_address, maps, sock, asked, count>>
              \/ /\ unmap /\ UNCHANGED count
                 /\ \/ pc' = "armed" /\ sock' = sock /\ asked' = SubSeq(asked, 2, Len(asked))
                    \/ Closed
<1>1. CASE WritevLast
  <2>1. /\ pc = "sending" /\ unmap /\ UNCHANGED count
        /\ \/ pc' = "armed" /\ sock' = sock /\ asked' = SubSeq(asked, 2, Len(asked))
           \/ Closed
    BY <1>1 DEF WritevLast
  <2>2. PICK n \in Nat : n = resp.toSend
    BY DEF Types, RespType
  <2>3. /\ out' = out \o Gathered(n) /\ n <= resp.toSend
        /\ \/ resp' = Advanced(Sent(n))
           \/ resp' = [Advanced(Sent(n)) EXCEPT !.have = 0]
    BY <1>1, <2>2 DEF WritevLast
  <2>4. resp' \in RespType /\ resp'.iovs = resp.iovs /\ out' \in Seq(Bytes)
    BY <2>2, <2>3, WrittenStep DEF Types
  <2> QED
    BY <2>1, <2>4
<1>2. CASE \E n \in 1 .. HeaderLen + FileLen : Writev(n)
  <2>1. PICK n \in 1 .. HeaderLen + FileLen : Writev(n)
    BY <1>2
  <2>2. /\ n \in Nat /\ n <= resp.toSend
        /\ out' = out \o Gathered(n) /\ resp' = Advanced(Sent(n))
        /\ pc = "sending" /\ pc' = pc
        /\ UNCHANGED <<m_file_address, maps, sock, asked, count>>
    <3>1. n \in Nat /\ resp.toSend \in Nat
      BY RespFields, Sizes DEF Types
    <3> QED
      BY <2>1, <3>1 DEF Writev
  <2>3. resp' \in RespType /\ resp'.iovs = resp.iovs /\ out' \in Seq(Bytes)
    BY <2>2, WrittenStep DEF Types
  <2> QED
    BY <2>2, <2>3
<1>3. CASE WriteFails
  BY <1>3 DEF WriteFails, Types
<1> QED
  BY <1>1, <1>2, <1>3 DEF write

LEMMA TailOfSeq ==
    ASSUME NEW S, NEW s \in Seq(S), NEW k \in Nat
    PROVE  SubSeq(s, k, Len(s)) \in Seq(S) \/ k = 0
<1>1. SUFFICES ASSUME k >= 1 PROVE SubSeq(s, k, Len(s)) \in Seq(S)
  OBVIOUS
<1>2. Len(s) \in Int /\ k \in Int /\ Len(s) \in Nat
  BY LenProperties
<1>3. \A i \in k..Len(s) : i \in 1..Len(s)
  BY <1>1, <1>2
<1>4. \A i \in k..Len(s) : s[i] \in S
  BY <1>3, ElementOfSeq
<1> QED
  BY <1>2, <1>4, SubSeqProperties

LEMMA UnmapStep ==
    ASSUME m_file_address \in Addresses, maps \in Nat,
           m_file_address \in {"map", "stale"} => maps >= 1, unmap
    PROVE  /\ m_file_address' = "null" /\ maps' \in Nat /\ maps' <= maps
           /\ m_file_address = "map" => maps' = maps - 1
<1>1. CASE m_file_address = "map"
  BY <1>1 DEF unmap
<1>2. CASE m_file_address = "stale"
  BY <1>2 DEF unmap
<1>3. CASE m_file_address \in {"null", "failed"}
  BY <1>3 DEF unmap
<1> QED
  BY <1>1, <1>2, <1>3 DEF Addresses

LEMMA TypesStep ==
    ASSUME ConnAssumption, ConnOK, Types, MapsOK, [Next]_vars
    PROVE  Types'
<1>0. /\ m_TRIGMode' \in {0, 1} /\ m_string' \in Texts
  <2>1. m_TRIGMode' = m_TRIGMode
    BY ParserStep DEF Next, Serve, Send, HangUp, Accept, WriteFails, BufferFull, Reads,
       do_request, process_write, NoAnswer, write, Writev, WritevLast, Types,
       process_read, parse_request_line, parse_headers, HeaderEnd, Content, NoRequest,
       parse_content, ByParser
  <2> QED
    BY <2>1, ConnStep DEF Types
<1>1. CASE UNCHANGED vars
  BY <1>1 DEF Types
<1>2. CASE \E r \in Requests : Send(r)
  <2>1. PICK r \in Requests : Send(r)
    BY <1>2
  <2>2. sock' = sock \o r /\ asked' = Append(asked, r) /\ UNCHANGED <<server, out>>
    BY <2>1 DEF Send
  <2>3. r \in Seq(Symbols) /\ sock \in Seq(Symbols) /\ asked \in Seq(Requests)
    BY DEF ConnAssumption, Types
  <2>4. sock' \in Seq(Symbols) /\ asked' \in Seq(Requests)
    BY <2>2, <2>3, ConcatProperties, AppendProperties
  <2>5. count' \in CountType
    <3>1. PICK k \in Nat : k = count.requests + 1
      BY DEF Types, CountType
    <3>2. count' = [count EXCEPT !.requests = k]
      BY <2>1, <3>1 DEF Send
    <3> QED
      BY <3>2 DEF Types, CountType
  <2> QED
    BY <1>0, <2>2, <2>4, <2>5 DEF Types
<1>3. CASE HangUp
  <2>1. << >> \in Seq(Symbols) /\ << >> \in Seq(Requests)
    BY EmptySeq
  <2>2. count' \in CountType
    <3>0. PICK i \in {0, 1} : i = IF SendsMap THEN 1 ELSE 0
      OBVIOUS
    <3>1. PICK k \in Nat : k = count.cutOff + (IF SendsMap THEN 1 ELSE 0)
      BY <3>0 DEF Types, CountType
    <3>2. count' = [count EXCEPT !.cutOff = k]
      BY <1>3, <3>1 DEF HangUp
    <3> QED
      BY <3>2 DEF Types, CountType
  <2> QED
    BY <1>0, <1>3, <2>1, <2>2 DEF HangUp, Closed, Types, Pages
<1>4. CASE Accept
  <2>1. count' \in CountType
    <3>1. PICK k \in Nat : k = count.clients + 1
      BY DEF Types, CountType
    <3>2. count' = [count EXCEPT !.clients = k]
      BY <1>4, <3>1 DEF Accept
    <3> QED
      BY <3>2 DEF Types, CountType
  <2>2. resp' \in RespType
    <3>1. resp' = [resp EXCEPT !.have = 0, !.toSend = 0]
      BY <1>4 DEF Accept
    <3> QED
      BY <3>1 DEF Types, RespType
  <2>3. out' \in Seq(Bytes)
    BY <1>4, EmptySeq DEF Accept
  <2> QED
    BY <1>0, <1>4, <2>1, <2>2, <2>3 DEF Accept, Types, Pages
<1>5. CASE WriteFails
  <2>1. << >> \in Seq(Symbols) /\ << >> \in Seq(Requests)
    BY EmptySeq
  <2>2. m_file_address' = "null" /\ maps' \in Nat
    BY <1>5, UnmapStep DEF WriteFails, Types, MapsOK
  <2> QED
    BY <1>0, <1>5, <2>1, <2>2 DEF WriteFails, Closed, Types, Pages, Addresses
<1>6. CASE BufferFull \/ NoAnswer
  <2>1. << >> \in Seq(Symbols) /\ << >> \in Seq(Requests)
    BY EmptySeq
  <2> QED
    BY <1>0, <1>6, <2>1 DEF BufferFull, NoAnswer, Closed, Types, Pages
<1>7. CASE \E n \in 1..BufSize : Reads(n)
  <2>1. PICK n \in 1..BufSize : Reads(n)
    BY <1>7
  <2>2. sock' \in Seq(Symbols)
    <3>1. PICK k \in Nat : k = n + 1
      BY Sizes
    <3>2. k # 0 /\ sock' = SubSeq(sock, k, Len(sock))
      BY <2>1, <3>1, Sizes DEF Reads
    <3> QED
      BY <3>2, TailOfSeq DEF Types
  <2> QED
    BY <1>0, <2>1, <2>2 DEF Reads, Types, Pages
<1>8. CASE process_read
  BY <1>0, <1>8, ParserStep DEF ByParser, Types, Pages
<1>9. CASE do_request
  <2>1. m_file_address' \in Addresses
    BY <1>9 DEF do_request, NotSent, Types, Addresses
  <2>2. maps' \in Nat
    BY <1>9 DEF do_request, NotSent, Types
  <2>3. pc' \in Pages /\ UNCHANGED <<resp, client>>
    BY <1>9 DEF do_request, NotSent, Pages
  <2> QED
    BY <1>0, <2>1, <2>2, <2>3 DEF Types
<1>10. CASE process_write
  <2>1. resp' \in RespType
    <3>1. PICK s \in Nat : s = HeaderLen + (IF pc = "FILE_REQUEST" THEN FileLen ELSE 0)
      BY Sizes
    <3>2. PICK v \in {1, 2} : v = IF pc = "FILE_REQUEST" THEN 2 ELSE 1
      OBVIOUS
    <3>3. resp' = [NoResponse EXCEPT !.have = resp.have, !.toSend = s, !.len0 = HeaderLen,
                                     !.len1 = FileLen, !.iovs = v]
      BY <1>10, <3>1, <3>2 DEF process_write
    <3>6. resp.have \in Nat
      BY DEF Types, RespType
    <3>4. HeaderLen \in Int /\ FileLen \in Int
      BY Sizes
    <3>5. NoResponse \in RespType
      BY DEF NoResponse, RespType
    <3> QED
      BY <3>3, <3>4, <3>5, <3>6 DEF RespType
  <2>2. out' \in Seq(Bytes)
    BY <1>10, EmptySeq DEF process_write
  <2> QED
    BY <1>0, <1>10, <2>1, <2>2 DEF process_write, Types, Pages
<1>11. CASE write
  <2>1. resp' \in RespType /\ out' \in Seq(Bytes) /\ pc = "sending"
    BY <1>11, WriteStep
  <2>2. << >> \in Seq(Symbols) /\ << >> \in Seq(Requests)
    BY EmptySeq
  <2>3. SubSeq(asked, 2, Len(asked)) \in Seq(Requests)
    BY TailOfSeq DEF Types
  <2>4. unmap => m_file_address' = "null" /\ maps' \in Nat
    BY UnmapStep DEF Types, MapsOK
  <2> QED
    BY <1>0, <1>11, <2>1, <2>2, <2>3, <2>4, WriteStep DEF Closed, Types, Pages, Addresses
<1> QED
  BY <1>1, <1>2, <1>3, <1>4, <1>5, <1>6, <1>7, <1>8, <1>9, <1>10, <1>11 DEF Next, Serve

(* What is mapped, and how often a client was cut off.                     *)
LEMMA MapsStep ==
    ASSUME ConnAssumption, ConnOK, Types, MapsOK, [Next]_vars
    PROVE  MapsOK'
<1>0. /\ maps \in Nat /\ count.cutOff \in Nat /\ count.clients \in Nat /\ MaxClients \in Nat
      /\ m_file_address \in Addresses
  BY Sizes DEF Types, CountType
<1>1. ASSUME UNCHANGED <<maps, m_file_address>>, count'.cutOff = count.cutOff,
             count'.clients = count.clients, ~WithFile, ~WithFile',
             pc' = "closed" \/ pc # "closed"
      PROVE  MapsOK'
  BY <1>0, <1>1 DEF MapsOK
<1>2. CASE UNCHANGED vars
  BY <1>2 DEF MapsOK, WithFile
<1>3. CASE \E r \in Requests : Send(r)
  <2>1. /\ UNCHANGED <<maps, m_file_address, pc, resp>>
        /\ count' = [count EXCEPT !.requests = @ + 1]
    BY <1>3 DEF Send
  <2>2. count'.cutOff = count.cutOff /\ count'.clients = count.clients
    BY <2>1 DEF Types, CountType
  <2> QED
    BY <2>1, <2>2 DEF MapsOK, WithFile
<1>4. CASE HangUp
  <2>1. /\ UNCHANGED <<maps, m_file_address>> /\ pc \in {"armed", "sending"} /\ pc' = "closed"
        /\ count'.cutOff = count.cutOff + (IF WithFile THEN 1 ELSE 0)
        /\ count'.clients = count.clients
    <3>1. PICK k : k = count.cutOff + (IF SendsMap THEN 1 ELSE 0)
      OBVIOUS
    <3>4. SendsMap <=> WithFile
      BY <1>4 DEF HangUp, SendsMap, WithFile
    <3>2. count' = [count EXCEPT !.cutOff = k]
      BY <1>4, <3>1 DEF HangUp
    <3>3. count'.cutOff = k /\ count'.clients = count.clients
      BY <3>2 DEF Types, CountType
    <3> QED
      BY <1>4, <3>1, <3>3, <3>4 DEF HangUp, Closed
  <2>2. ~WithFile'
    BY <2>1 DEF WithFile
  <2> QED
    BY <1>0, <2>1, <2>2, SMTT(30) DEF MapsOK
<1>5. CASE Accept
  <2>1. /\ UNCHANGED <<maps, m_file_address>> /\ pc = "closed" /\ pc' = "armed"
        /\ count'.cutOff = count.cutOff /\ count'.clients = count.clients + 1
        /\ count.clients < MaxClients
    <3>1. count' = [count EXCEPT !.clients = @ + 1]
      BY <1>5 DEF Accept
    <3> QED
      BY <1>5, <3>1 DEF Accept, Types, CountType
  <2>2. ~WithFile' /\ ~WithFile
    BY <2>1 DEF WithFile
  <2> QED
    BY <1>0, <2>1, <2>2 DEF MapsOK
<1>6. CASE BufferFull \/ NoAnswer \/ (\E n \in 1..BufSize : Reads(n))
  <2>1. /\ UNCHANGED <<maps, m_file_address, count>>
        /\ pc \in {"armed", "NO_RESOURCE", "EMPTY_FILE"} /\ pc' \in {"closed", "lines"}
    BY <1>6 DEF BufferFull, NoAnswer, Reads, Closed
  <2> QED
    BY <1>1, <2>1 DEF WithFile
<1>7. CASE process_read
  <2>1. /\ UNCHANGED <<maps, m_file_address, count>>
        /\ pc \in {"lines", "open"}
        /\ pc' \in {"lines", "open", "armed", "BAD_REQUEST", "do_request"}
    BY <1>7, ParserStep DEF ByParser, Types
  <2> QED
    BY <1>1, <2>1 DEF WithFile
<1>8. CASE do_request
  <2>1. pc = "do_request" /\ ~WithFile /\ UNCHANGED count
    BY <1>8 DEF do_request, WithFile
  <2>2. CASE pc' = "FILE_REQUEST" /\ m_file_address' = "map" /\ maps' = maps + 1
    <3>1. WithFile' /\ pc' # "closed" /\ pc # "closed"
      BY <2>1, <2>2 DEF WithFile
    <3>2. maps <= count.cutOff
      BY <1>0, <2>1 DEF MapsOK
    <3> QED
      BY <1>0, <2>1, <2>2, <3>1, <3>2 DEF MapsOK
  <2>3. CASE pc' = "NO_RESOURCE" /\ UNCHANGED <<m_file_address, maps>>
    BY <1>1, <2>1, <2>3 DEF WithFile
  <2>4. CASE NotSent
    <3>1. /\ ~WithFile' /\ maps' = maps /\ pc # "closed" /\ pc' # "closed"
          /\ m_file_address' \in {"map", "stale"} => m_file_address \in {"map", "stale"}
      BY <2>1, <2>4 DEF NotSent, WithFile, do_request
    <3> QED
      BY <1>0, <2>1, <3>1 DEF MapsOK
  <2>5. CASE /\ pc' \in {"FILE_REQUEST", "EMPTY_FILE"} /\ m_file_address' = "failed"
             /\ UNCHANGED maps
    <3>1. ~WithFile' /\ pc # "closed" /\ pc' # "closed"
      BY <2>1, <2>5 DEF WithFile
    <3> QED
      BY <1>0, <2>1, <2>5, <3>1 DEF MapsOK
  <2> QED
    BY <1>8, <2>2, <2>3, <2>4, <2>5 DEF do_request
<1>9. CASE process_write
  <2>1. /\ UNCHANGED <<maps, m_file_address, count>> /\ pc' = "sending"
        /\ pc # "sending" /\ pc # "closed"
        /\ resp'.iovs = IF pc = "FILE_REQUEST" THEN 2 ELSE 1
    BY <1>9 DEF process_write, NoResponse
  <2>2. WithFile' <=> WithFile
    BY <2>1 DEF WithFile
  <2> QED
    BY <1>0, <2>1, <2>2 DEF MapsOK
<1>10. CASE write \/ WriteFails
  <2>1. /\ pc = "sending" /\ UNCHANGED count
        /\ \/ pc' = pc /\ UNCHANGED <<m_file_address, maps>> /\ resp'.iovs = resp.iovs
           \/ unmap /\ pc' \in {"armed", "closed"}
    BY <1>10, WriteStep DEF WriteFails, Closed
  <2>2. CASE pc' = pc /\ UNCHANGED <<m_file_address, maps>> /\ resp'.iovs = resp.iovs
    <3>1. WithFile' <=> WithFile
      BY <2>1, <2>2 DEF WithFile
    <3> QED
      BY <1>0, <2>1, <2>2, <3>1 DEF MapsOK
  <2>3. CASE unmap /\ pc' \in {"armed", "closed"}
    <3>1. /\ m_file_address' = "null" /\ maps' \in Nat /\ maps' <= maps
          /\ m_file_address = "map" => maps' = maps - 1
      BY <1>0, <2>3, UnmapStep DEF MapsOK
    <3>2. ~WithFile'
      BY <2>3 DEF WithFile
    <3>3. maps' <= count.cutOff
      BY <1>0, <3>1 DEF MapsOK, WithFile
    <3> QED
      BY <1>0, <2>1, <2>3, <3>1, <3>2, <3>3 DEF MapsOK
  <2> QED
    BY <2>1, <2>2, <2>3
<1> QED
  BY <1>2, <1>3, <1>4, <1>5, <1>6, <1>7, <1>8, <1>9, <1>10 DEF Next, Serve

-----------------------------------------------------------------------------
(* The bytes sent.                                                         *)
LEMMA AnswerIs ==
    ASSUME ConnAssumption, resp \in RespType
    PROVE  /\ Answer \in Seq(Bytes) /\ Len(Answer) = Total /\ Total \in Nat /\ HeaderLen <= Total
           /\ \A i \in 1..Total : Answer[i] = IF i <= HeaderLen THEN <<"header", i - 1>>
                                              ELSE <<"file", i - HeaderLen - 1>>
<1>1. Total \in Nat /\ HeaderLen \in Nat /\ HeaderLen <= Total
  BY Sizes DEF Total
<1>2. \A i \in 1..Total : Answer[i] = IF i <= HeaderLen THEN <<"header", i - 1>>
                                      ELSE <<"file", i - HeaderLen - 1>>
  BY DEF Answer, Total
<1>3. DOMAIN Answer = 1..Total /\ Answer = [i \in 1..Total |-> Answer[i]]
  BY DEF Answer, Total
<1> HIDE DEF Total
<1>4. \A i \in 1..Total : Answer[i] \in Bytes
  <2>1. ASSUME NEW i \in 1..Total PROVE Answer[i] \in Bytes
    <3>1. PICK a, b : a = i - 1 /\ b = i - HeaderLen - 1
      OBVIOUS
    <3>2. a \in Int /\ b \in Int
      BY <1>1, <3>1
    <3>3. Answer[i] = <<"header", a>> \/ Answer[i] = <<"file", b>>
      BY <1>2, <3>1
    <3>4. <<"header", a>> \in Bytes /\ <<"file", b>> \in Bytes
      BY <3>2 DEF Bytes
    <3> QED
      BY <3>3, <3>4
  <2> QED
    BY <2>1
<1>5. Answer \in [1..Total -> Bytes]
  BY <1>3, <1>4
<1>6. Answer \in Seq(Bytes)
  BY <1>1, <1>5, SeqDef
<1> QED
  BY <1>1, <1>2, <1>3, <1>6, LenProperties

LEMMA PartIs ==
    ASSUME NEW S, NEW whole \in Seq(S), NEW part \in Seq(S), Len(part) <= Len(whole)
    PROVE  part = SubSeq(whole, 1, Len(part))
             <=> \A i \in 1..Len(part) : part[i] = whole[i]
<1> DEFINE cut == SubSeq(whole, 1, Len(part))
<1>1. Len(part) \in Nat /\ Len(whole) \in Nat
  BY LenProperties
<1>2. \A i \in 1..Len(part) : whole[i] \in S
  <2>1. \A i \in 1..Len(part) : i \in 1..Len(whole)
    BY <1>1
  <2> QED
    BY <2>1, ElementOfSeq
<1>3. /\ cut \in Seq(S) /\ Len(cut) = Len(part)
      /\ \A i \in 1..Len(part) : cut[i] = whole[i]
  <2>1. PICK k \in Nat : k = Len(part)
    BY <1>1
  <2>2. 1 \in Int /\ k \in Int /\ \A i \in 1..k : whole[i] \in S
    BY <1>2, <2>1
  <2>3. /\ SubSeq(whole, 1, k) \in Seq(S)
        /\ Len(SubSeq(whole, 1, k)) = IF 1 <= k THEN k - 1 + 1 ELSE 0
        /\ \A i \in 1 .. k - 1 + 1 : SubSeq(whole, 1, k)[i] = whole[1 + i - 1]
    BY <2>2, SubSeqProperties
  <2> HIDE DEF cut
  <2>4. cut = SubSeq(whole, 1, k)
    BY <2>1 DEF cut
  <2>5. Len(cut) = k /\ \A i \in 1..k : cut[i] = whole[i]
    BY <2>3, <2>4
  <2> QED
    BY <2>1, <2>3, <2>4, <2>5
<1> HIDE DEF cut
<1>4. (\A i \in 1..Len(part) : part[i] = whole[i]) => part = cut
  BY <1>3, SeqEqual
<1> QED
  BY <1>3, <1>4 DEF cut

Joined(S, a, b, k, n, c) ==
    /\ c \in Seq(S) /\ Len(c) = k + n
    /\ \A i \in 1..k : c[i] = a[i]
    /\ \A i \in k + 1 .. k + n : c[i] = b[i - k]

LEMMA ConcatParts ==
    ASSUME NEW S, NEW a \in Seq(S), NEW b \in Seq(S), NEW k \in Nat, NEW n \in Nat,
           Len(a) = k, Len(b) = n, NEW c, c = a \o b
    PROVE  Joined(S, a, b, k, n, c)
<1>1. /\ c \in Seq(S) /\ Len(c) = Len(a) + Len(b)
      /\ \A i \in 1 .. Len(a) + Len(b) :
           c[i] = IF i <= Len(a) THEN a[i] ELSE b[i - Len(a)]
  BY ConcatProperties
<1> QED
  BY <1>1 DEF Joined

(* A writev of n bytes that begins where m_iv is aligned sends the next n  *)
(* bytes of the answer and leaves m_iv aligned.                            *)
LEMMA NextBytes ==
    ASSUME ConnAssumption, Types, SendingOK, SentFaithful, pc = "sending",
           NEW n \in Nat, 0 < n, n <= resp.toSend, NEW r, Moved(r, n), r.inHeader < 2,
           NEW sent, sent = out \o Gathered(n)
    PROVE  /\ r.have + r.toSend = Total /\ Len(sent) = r.have
           /\ sent = SubSeq(Answer, 1, Len(sent))
           /\ IF r.have < HeaderLen
              THEN /\ r.off0 = r.have /\ r.len0 = HeaderLen - r.have
                   /\ r.off1 = 0 /\ r.len1 = FileLen /\ r.inHeader >= 1
              ELSE /\ r.len0 = 0
                   /\ r.off1 = r.have - HeaderLen /\ r.len1 = r.toSend
<1>0. PICK have \in Nat, left \in Nat, off0 \in Int, len0 \in Int, off1 \in Int,
           writes \in 0..2, after \in 0..2 :
        /\ have = resp.have /\ left = resp.toSend /\ writes = resp.inHeader
        /\ off0 = resp.off0 /\ len0 = resp.len0 /\ off1 = resp.off1
        /\ after = r.inHeader
  <2>1. resp \in RespType /\ r \in RespType
    BY DEF Types, Moved
  <2> QED
    BY <2>1, RespFields
<1>1. /\ r.have = have + n /\ r.toSend = left - n /\ writes <= after /\ n <= left
      /\ have + n < HeaderLen => after >= 1
      /\ have + n < HeaderLen /\ writes >= 1 => after = 2
      /\ \/ /\ have + n >= len0
            /\ r.len0 = 0 /\ r.off1 = r.have - HeaderLen /\ r.len1 = r.toSend
         \/ /\ have + n < len0
            /\ r.off0 = r.have /\ r.len0 = len0 - r.have
            /\ r.off1 = off1 /\ r.len1 = resp.len1
  BY <1>0 DEF Moved
<1>2. writes < 2 /\ after < 2 /\ HeaderLen \in Nat /\ 0 < HeaderLen
  <2>1. after < 2
    BY <1>0
  <2> QED
    BY <1>1, <2>1, Sizes
<1>3. /\ have + left = Total /\ Len(out) = have /\ out = SubSeq(Answer, 1, Len(out))
      /\ have < HeaderLen =>
           /\ off0 = have /\ len0 = HeaderLen - have /\ off1 = 0 /\ resp.len1 = FileLen
           /\ have > 0 => writes >= 1
      /\ ~(have < HeaderLen) => len0 = 0 /\ off1 = have - HeaderLen
  <2>1. resp.inHeader < 2
    BY <1>0, <1>2
  <2>2. resp.have + resp.toSend = Total /\ Len(out) = resp.have /\ Aligned
    BY <2>1 DEF SendingOK
  <2>3. out = SubSeq(Answer, 1, Len(out))
    BY <2>1 DEF SentFaithful
  <2> QED
    BY <1>0, <2>2, <2>3 DEF Aligned
<1>4. /\ Answer \in Seq(Bytes) /\ Len(Answer) = Total /\ Total \in Nat
      /\ \A i \in 1..Total : Answer[i] = IF i <= HeaderLen THEN <<"header", i - 1>>
                                         ELSE <<"file", i - HeaderLen - 1>>
  BY AnswerIs DEF Types
<1>5. PICK g, o : g = Gathered(n) /\ o = out
  OBVIOUS
<1>6. /\ g \in Seq(Bytes) /\ Len(g) = n
      /\ \A i \in 1..n : g[i] = IF i <= len0 THEN <<"header", off0 + i - 1>>
                                ELSE <<"file", off1 + i - len0 - 1>>
  <2>1. resp \in RespType
    BY DEF Types
  <2>2. \A i \in 1..n : g[i] = IF i <= resp.len0 THEN <<"header", resp.off0 + i - 1>>
                               ELSE <<"file", resp.off1 + i - resp.len0 - 1>>
    BY <1>5, <2>1, GatheredIs
  <2> QED
    BY <1>0, <1>5, <2>1, <2>2, GatheredIs
<1> HIDE DEF Total
<1>7. r.have + r.toSend = Total /\ have + n \in Nat /\ have + n <= Total
  BY <1>1, <1>3, <1>4
<1>8. /\ sent \in Seq(Bytes) /\ Len(sent) = have + n
      /\ \A i \in 1..have : sent[i] = out[i]
      /\ \A i \in have + 1 .. have + n : sent[i] = g[i - have]
  <2>1. o \in Seq(Bytes)
    BY <1>5 DEF Types
  <2>2. Len(o) = have
    BY <1>3, <1>5
  <2>3. sent = o \o g
    BY <1>5
  <2>4. g \in Seq(Bytes) /\ Len(g) = n
    BY <1>6
  <2>5. Joined(Bytes, o, g, have, n, sent)
    BY <2>1, <2>2, <2>3, <2>4, ConcatParts
  <2> QED
    BY <1>5, <2>5 DEF Joined
<1>9. \A i \in 1..have : out[i] = Answer[i]
  <2>1. out \in Seq(Bytes)
    BY DEF Types
  <2>2. have <= Total
    BY <1>4, <1>7
  <2> QED
    BY <1>3, <1>4, <2>1, <2>2, PartIs
<1>10. \A i \in 1 .. have + n : sent[i] = Answer[i]
  <2>1. ASSUME NEW i \in have + 1 .. have + n PROVE sent[i] = Answer[i]
    <3>1. PICK j \in 1..n : j = i - have
      OBVIOUS
    <3>2. i = have + j /\ i \in 1..Total
      BY <1>4, <1>7, <3>1
    <3>3. sent[i] = IF j <= len0 THEN <<"header", off0 + j - 1>>
                    ELSE <<"file", off1 + j - len0 - 1>>
      BY <1>6, <1>8, <3>1
    <3>4. Answer[i] = IF i <= HeaderLen THEN <<"header", i - 1>>
                      ELSE <<"file", i - HeaderLen - 1>>
      BY <1>4, <3>2
    <3>5. /\ j <= len0 <=> i <= HeaderLen
          /\ i <= HeaderLen => off0 + j - 1 = i - 1
          /\ ~(i <= HeaderLen) => off1 + j - len0 - 1 = i - HeaderLen - 1
      <4>1. CASE have < HeaderLen
        BY <1>2, <1>3, <3>2, <4>1
      <4>2. CASE ~(have < HeaderLen)
        BY <1>2, <1>3, <3>2, <4>2
      <4> QED
        BY <4>1, <4>2
    <3> QED
      BY <3>3, <3>4, <3>5
  <2>2. \A i \in 1 .. have + n : i \in 1..have \/ i \in have + 1 .. have + n
    OBVIOUS
  <2> QED
    BY <1>8, <1>9, <2>1, <2>2
<1>11. sent = SubSeq(Answer, 1, Len(sent))
  BY <1>4, <1>7, <1>8, <1>10, PartIs
<1>12. IF r.have < HeaderLen
       THEN /\ r.off0 = r.have /\ r.len0 = HeaderLen - r.have
            /\ r.off1 = 0 /\ r.len1 = FileLen /\ r.inHeader >= 1
       ELSE /\ r.len0 = 0
            /\ r.off1 = r.have - HeaderLen /\ r.len1 = r.toSend
  <2>0. PICK h \in Nat : h = r.have /\ h = have + n
    BY <1>1, SMTT(30)
  <2>1. CASE h < HeaderLen
    <3>1. have < HeaderLen /\ after >= 1
      BY <1>1, <1>2, <2>0, <2>1
    <3>2. have = 0
      BY <1>1, <1>2, <1>3, <2>0, <2>1, <3>1
    <3>3. len0 = HeaderLen /\ off1 = 0 /\ resp.len1 = FileLen
      BY <1>2, <1>3, <3>1, <3>2
    <3>4. r.off0 = r.have /\ r.len0 = len0 - r.have /\ r.off1 = off1 /\ r.len1 = resp.len1
      BY <1>1, <1>2, <2>0, <2>1, <3>3
    <3> QED
      BY <1>0, <2>0, <2>1, <3>1, <3>3, <3>4
  <2>2. CASE ~(h < HeaderLen)
    <3>1. h >= len0
      BY <1>2, <1>3, <2>0, <2>2
    <3>2. r.len0 = 0 /\ r.off1 = r.have - HeaderLen /\ r.len1 = r.toSend
      BY <1>1, <2>0, <3>1
    <3> QED
      BY <2>0, <2>2, <3>2
  <2> QED
    BY <2>1, <2>2
<1> QED
  BY <1>1, <1>7, <1>8, <1>11, <1>12

LEMMA SentEmpty ==
    ASSUME ConnAssumption, resp' \in RespType, out' = << >>
    PROVE  SentFaithful'
<1>1. SubSeq(Answer', 1, 0) = << >>
  BY SubSeqEmpty
<1>2. Len(out') = 0
  BY EmptySeq
<1> QED
  BY <1>1, <1>2 DEF SentFaithful

LEMMA SendingStep ==
    ASSUME ConnAssumption, Types, Types', SendingOK, SentFaithful, [Next]_vars
    PROVE  SendingOK' /\ SentFaithful'
<1>1. ASSUME UNCHANGED <<resp, out>>, pc' = "sending" => pc = "sending",
             pc' \in {"sending", "closed"} \/ pc \notin {"sending", "closed"}
      PROVE  SendingOK' /\ SentFaithful'
  <2>1. Answer' = Answer
    BY <1>1 DEF Answer
  <2>2. SentFaithful'
    BY <1>1, <2>1 DEF SentFaithful
  <2>3. SendingOK'
    BY <1>1 DEF SendingOK, Total, Aligned
  <2> QED
    BY <2>2, <2>3
<1>2. CASE Accept
  <2>1. out' = << >> /\ pc' # "sending" /\ resp'.have = 0
    BY <1>2 DEF Accept, Types, RespType
  <2> QED
    BY <2>1, SentEmpty DEF SendingOK, Types
<1>3. CASE process_write
  <2>1. out' = << >> /\ Len(out') = 0
    BY <1>3, EmptySeq DEF process_write
  <2>2. PICK s \in Nat, v \in {1, 2} :
           /\ s = HeaderLen + (IF v = 2 THEN FileLen ELSE 0)
           /\ resp' = [NoResponse EXCEPT !.have = 0, !.toSend = s, !.len0 = HeaderLen,
                                         !.len1 = FileLen, !.iovs = v]
    <3>1. PICK v \in {1, 2} : v = IF pc = "FILE_REQUEST" THEN 2 ELSE 1
      OBVIOUS
    <3>2. PICK s \in Nat : s = HeaderLen + (IF pc = "FILE_REQUEST" THEN FileLen ELSE 0)
      BY Sizes
    <3>3. s = HeaderLen + (IF v = 2 THEN FileLen ELSE 0)
      BY <3>1, <3>2
    <3>4. resp.have = 0 /\ pc' = "sending"
      BY <1>3 DEF process_write, SendingOK
    <3>5. resp' = [NoResponse EXCEPT !.have = 0, !.toSend = s, !.len0 = HeaderLen,
                                     !.len1 = FileLen, !.iovs = v]
      BY <1>3, <3>1, <3>2, <3>4 DEF process_write
    <3> QED
      BY <3>3, <3>5
  <2>3. /\ resp'.have = 0 /\ resp'.toSend = s /\ resp'.off0 = 0 /\ resp'.len0 = HeaderLen
        /\ resp'.off1 = 0 /\ resp'.len1 = FileLen /\ resp'.iovs = v
    BY <2>2 DEF NoResponse
  <2>4. HeaderLen \in Nat /\ 0 < HeaderLen /\ FileLen \in Nat
    BY Sizes
  <2>5. s > 0 /\ 0 + s = s /\ HeaderLen = HeaderLen - 0
    BY <2>2, <2>4
  <2>6. Total' = s
    BY <2>2, <2>3 DEF Total
  <2>7. Aligned'
    BY <2>3, <2>4, <2>5 DEF Aligned
  <2>8. SendingOK'
    <3>1. pc' = "sending"
      BY <1>3 DEF process_write
    <3> QED
      BY <2>1, <2>3, <2>5, <2>6, <2>7, <3>1 DEF SendingOK
  <2> QED
    BY <2>1, <2>8, SentEmpty DEF Types
<1>4. CASE \E n \in 1 .. HeaderLen + FileLen : Writev(n)
  <2>1. PICK n \in 1 .. HeaderLen + FileLen : Writev(n)
    BY <1>4
  <2>2. n \in Nat /\ 0 < n
    BY Sizes
  <2>3. PICK left \in Nat : left = resp.toSend
    BY RespFields DEF Types
  <2>4. /\ pc = "sending" /\ pc' = pc /\ n < left
        /\ resp' = Advanced(Sent(n)) /\ out' = out \o Gathered(n)
    BY <2>1, <2>3 DEF Writev
  <2>5. n <= left
    BY <2>2, <2>4
  <2>6. PICK r, sent : r = resp' /\ sent = out'
    OBVIOUS
  <2>7. Moved(r, n)
    BY <2>2, <2>3, <2>4, <2>5, <2>6, AdvancedIs DEF Types
  <2>8. r.iovs = resp.iovs /\ r.toSend = left - n /\ r.toSend > 0
    BY <2>2, <2>3, <2>4, <2>7 DEF Moved
  <2>9. Answer' = Answer /\ Total' = Total
    BY <2>6, <2>8 DEF Answer, Total
  <2>10. CASE r.inHeader < 2
    <3>1. /\ r.have + r.toSend = Total /\ Len(sent) = r.have
          /\ sent = SubSeq(Answer, 1, Len(sent))
          /\ IF r.have < HeaderLen
             THEN /\ r.off0 = r.have /\ r.len0 = HeaderLen - r.have
                  /\ r.off1 = 0 /\ r.len1 = FileLen /\ r.inHeader >= 1
             ELSE /\ r.len0 = 0
                  /\ r.off1 = r.have - HeaderLen /\ r.len1 = r.toSend
      BY <2>2, <2>3, <2>4, <2>5, <2>6, <2>7, <2>10, NextBytes
    <3>2. Aligned'
      BY <2>6, <3>1 DEF Aligned
    <3>3. SendingOK'
      BY <2>4, <2>6, <2>8, <2>9, <3>1, <3>2 DEF SendingOK
    <3>4. resp'.toSend # 0
      BY <2>3, <2>4, <2>6, <2>8
    <3>5. SentFaithful'
      BY <2>6, <2>9, <3>1, <3>4 DEF SentFaithful
    <3> QED
      BY <3>3, <3>5
  <2>11. CASE ~(r.inHeader < 2)
    BY <2>4, <2>6, <2>8, <2>11 DEF SendingOK, SentFaithful
  <2> QED
    BY <2>10, <2>11
<1>5. CASE WritevLast
  <2>1. PICK n \in Nat : n = resp.toSend
    BY RespFields DEF Types
  <2>2. PICK r, sent : r = Advanced(Sent(n)) /\ sent = out'
    OBVIOUS
  <2>3. /\ pc = "sending" /\ pc' # "sending" /\ sent = out \o Gathered(n)
        /\ resp' = r \/ resp' = [r EXCEPT !.have = 0]
        /\ pc' = "closed" \/ resp' = [r EXCEPT !.have = 0]
    BY <1>5, <2>1, <2>2 DEF WritevLast, Closed
  <2>4. n <= resp.toSend
    BY <2>1
  <2>5. Moved(r, n)
    BY <2>2, <2>4, AdvancedIs DEF Types
  <2>6. resp'.iovs = r.iovs /\ resp'.inHeader = r.inHeader /\ r.iovs = resp.iovs
    BY <2>3, <2>5 DEF Moved, RespType
  <2>10. pc' = "closed" \/ resp'.have = 0
    BY <2>3, <2>5 DEF Moved, RespType
  <2>7. Answer' = Answer
    BY <2>6 DEF Answer
  <2>8. CASE r.inHeader < 2
    <3>1. 0 < n
      BY <2>1, <2>3 DEF SendingOK
    <3>2. /\ r.have + r.toSend = Total /\ Len(sent) = r.have
          /\ sent = SubSeq(Answer, 1, Len(sent))
      BY <2>2, <2>3, <2>4, <2>5, <2>8, <3>1, NextBytes
    <3>3. r.toSend = 0 /\ r.have \in Nat
      <4>1. r.toSend = resp.toSend - n /\ r \in RespType
        BY <2>5 DEF Moved
      <4>2. r.toSend = n - n
        BY <2>1, <4>1
      <4> QED
        BY <4>1, <4>2, RespFields
    <3>4. Len(sent) = Total /\ Answer \in Seq(Bytes) /\ Len(Answer) = Total
      BY <3>2, <3>3, AnswerIs, SMTT(30) DEF Types
    <3>5. sent = Answer
      BY <3>2, <3>4, SubSeqFull
    <3> QED
      BY <2>2, <2>3, <2>7, <2>10, <3>2, <3>5 DEF SendingOK, SentFaithful
  <2>9. CASE ~(r.inHeader < 2)
    BY <2>3, <2>6, <2>9, <2>10 DEF SendingOK, SentFaithful
  <2> QED
    BY <2>8, <2>9
<1>6. CASE UNCHANGED vars
  BY <1>1, <1>6
<1>7. CASE \/ (\E r \in Requests : Send(r)) \/ HangUp \/ WriteFails \/ BufferFull
           \/ (\E n \in 1..BufSize : Reads(n)) \/ do_request \/ NoAnswer
  <2>1. /\ UNCHANGED <<resp, out>> /\ (pc' = "sending" => pc = "sending")
        /\ pc' \in {"sending", "closed"} \/ pc \notin {"sending", "closed"}
    BY <1>7 DEF Send, HangUp, WriteFails, BufferFull, Reads, do_request, NotSent, NoAnswer, Closed
  <2> QED
    BY <1>1, <2>1
<1>8. CASE process_read
  <2>1. UNCHANGED <<resp, out>> /\ pc' # "sending" /\ pc \notin {"sending", "closed"}
    BY <1>8 DEF process_read, parse_request_line, parse_headers, HeaderEnd, Content,
       NoRequest, parse_content, TakesLine, ByParser
  <2> QED
    BY <1>1, <2>1
<1> QED
  BY <1>2, <1>3, <1>4, <1>5, <1>6, <1>7, <1>8 DEF Next, Serve, write

-----------------------------------------------------------------------------
LEMMA HInvInit ==
    ASSUME ConnAssumption, Init
    PROVE  HInv
<1>1. ConnOK
  BY ClearedOK DEF Init, ConnOK
<1>2. Types
  <2>1. /\ << >> \in Texts /\ << >> \in Seq(Symbols) /\ << >> \in Seq(Requests)
        /\ << >> \in Seq(Bytes)
    BY EmptySeq DEF Texts
  <2>2. NoResponse \in RespType
    BY DEF NoResponse, RespType
  <2>3. count \in CountType
    BY DEF Init, CountType
  <2> QED
    BY <2>1, <2>2, <2>3 DEF Init, Types, Pages, Addresses
<1>3. MapsOK
  BY Sizes DEF Init, MapsOK, WithFile
<1>4. SendingOK /\ SentFaithful
  <2>1. pc # "sending" /\ out = << >> /\ resp.have = 0
    BY DEF Init, NoResponse
  <2>2. SubSeq(Answer, 1, 0) = << >> /\ Len(out) = 0
    BY <2>1, SubSeqEmpty, EmptySeq
  <2> QED
    BY <2>1, <2>2 DEF SendingOK, SentFaithful
<1> QED
  BY <1>1, <1>2, <1>3, <1>4 DEF HInv

LEMMA HInvAlways == Spec => []HInv
<1>1. Init => HInv
  BY ConnAssumption, HInvInit
<1>2. HInv /\ [Next]_vars => HInv'
  <2> SUFFICES ASSUME HInv, [Next]_vars PROVE HInv'
    OBVIOUS
  <2>1. ConnOK /\ Types /\ MapsOK /\ SendingOK /\ SentFaithful
    BY DEF HInv
  <2>2. ConnOK'
    BY <2>1, ConnAssumption, ConnStep
  <2>3. Types'
    BY <2>1, ConnAssumption, TypesStep
  <2>4. MapsOK'
    BY <2>1, ConnAssumption, MapsStep
  <2>5. SendingOK' /\ SentFaithful'
    BY <2>1, <2>3, ConnAssumption, SendingStep
  <2> QED
    BY <2>2, <2>3, <2>4, <2>5 DEF HInv
<1> QED
  BY <1>1, <1>2, PTL DEF Spec

(* The members of a slot keep their ranges: whatever arrives in whatever   *)
(* pieces, the parser's indices stay within the read buffer, and no more   *)
(* files are mapped than clients were served (http_conn.h, the members).   *)
THEOREM MembersInRange == Spec => []TypeOK
<1>1. HInv => TypeOK
  <2> SUFFICES ASSUME HInv PROVE TypeOK
    OBVIOUS
  <2>1. ConnOK /\ Types /\ MapsOK
    BY DEF HInv
  <2>2. /\ conn.buf \in Texts /\ conn.checked \in Nat /\ conn.start \in Nat
        /\ conn.state \in {"REQUESTLINE", "HEADER", "CONTENT"}
        /\ conn.linger \in BOOLEAN /\ conn.clen \in {0, BodyLen} /\ conn.cgi \in BOOLEAN
    BY <2>1 DEF ConnOK, ConnType
  <2>3. Len(conn.buf) \in Nat
    BY <2>2, LenProperties DEF Texts
  <2>4. /\ Len(conn.buf) <= BufSize /\ conn.start \in 0..conn.checked
        /\ conn.checked \in 0..Len(conn.buf)
    BY <2>1, <2>2, <2>3 DEF ConnOK, Fits
  <2>5. maps \in 0..MaxClients
    <3>1. PICK cut \in Nat, served \in Nat : cut = count.cutOff /\ served = count.clients
      BY <2>1 DEF Types, CountType
    <3>2. /\ maps <= cut + (IF WithFile THEN 1 ELSE 0) /\ served <= MaxClients
          /\ cut + 1 <= served + (IF pc = "closed" THEN 1 ELSE 0)
      BY <2>1, <3>1 DEF MapsOK
    <3>3. maps \in Nat /\ MaxClients \in Nat /\ (WithFile => pc # "closed")
      BY <2>1, ConnAssumption, Sizes DEF Types, WithFile
    <3> QED
      BY <3>2, <3>3
  <2> QED
    BY <2>1, <2>2, <2>4, <2>5 DEF Types, TypeOK, Pages, Texts, Addresses
<1> QED
  BY <1>1, HInvAlways, PTL

(* A file stays mapped only while its answer is sent, and once for every   *)
(* client cut off in the middle of one (do_request, unmap, close_conn).    *)
THEOREM MapsLeakOnlyOnCutOff == Spec => []MapsBounded
<1>1. HInv => MapsBounded
  <2> SUFFICES ASSUME HInv PROVE MapsBounded
    OBVIOUS
  <2>1. maps <= count.cutOff + (IF WithFile THEN 1 ELSE 0)
    BY DEF HInv, MapsOK
  <2>2. maps \in Nat /\ count.cutOff \in Nat
    BY DEF HInv, Types, CountType
  <2>3. WithFile => pc \in {"FILE_REQUEST", "sending"}
    BY DEF WithFile
  <2> QED
    BY <2>1, <2>2, <2>3 DEF MapsBounded
<1> QED
  BY <1>1, HInvAlways, PTL

(* The bytes a client gets are the answer's, none twice, none missing and  *)
(* in order, however writev cuts it, unless two writes end within the      *)
(* header (http_conn::write and its m_iv).                                 *)
THEOREM AnswerSentInOrder == Spec => []SentFaithful
<1>1. HInv => SentFaithful
  BY DEF HInv
<1> QED
  BY <1>1, HInvAlways, PTL

-----------------------------------------------------------------------------
(* What the parser has understood.  k symbols of the request r ...         *)
Upto(r, k, word) == \E i \in 1..k : r[i] = word
NoEndBefore(r, k) == \A j \in 1 .. k - 1 : ~HeaderEndsAt(r, j)

(* ... are parsed, the rest of it is in the buffer c.buf or in the socket. *)
InBuffer(r, c, s) ==
    /\ Len(c.buf) + Len(s) = Len(r)
    /\ \A i \in 1..Len(s) : s[i] = r[Len(c.buf) + i]
    /\ \A i \in c.start + 1 .. Len(c.buf) : c.buf[i] = r[i]
    /\ c.start > 0 => c.buf[c.start] = "NUL"
    /\ \A i \in c.start + 1 .. c.checked : r[i] \notin {"CR", "LF"}

Known(r, c) ==
    /\ r[1] \in {"get", "post"} /\ c.cgi = (r[1] = "post")
    /\ c.linger = Upto(r, c.start, "keep")
    /\ c.clen = IF Upto(r, c.start, "len") THEN BodyLen ELSE 0

Reading(r, c, s) ==
    /\ InBuffer(r, c, s)
    /\ c.state = "REQUESTLINE" => c.start = 0 /\ ~c.linger /\ c.clen = 0 /\ ~c.cgi
    /\ c.state = "HEADER" =>
         Known(r, c) /\ c.start > 0 /\ r[c.start] = "LF" /\ NoEndBefore(r, c.start)
    /\ c.state = "CONTENT" =>
         /\ c.cgi = (r[1] = "post") /\ c.linger = Has(r, "keep")
         /\ Has(r, "len") /\ c.clen = BodyLen
         /\ c.checked = c.start /\ c.start > 2
         /\ HeaderEndsAt(r, c.start - 2) /\ NoEndBefore(r, c.start - 2)

(* do_request has what the client meant.                                   *)
Meant(r, c, string) ==
    /\ c.cgi = (r[1] = "post") /\ c.linger = Has(r, "keep")
    /\ Has(r, "len") => string = Body(r)

Replying == {"NO_RESOURCE", "FORBIDDEN_REQUEST", "BAD_REQUEST", "FILE_REQUEST", "EMPTY_FILE"}

(* The request r is in the slot's hands.                                   *)
InHand(r) ==
    /\ pc \in {"armed", "lines"} => Reading(r, conn, sock)
    /\ pc = "armed" => conn.state # "CONTENT"
    /\ pc \in Replying \cup {"do_request", "sending"} => (conn.linger => sock = << >>)
    /\ pc = "do_request" => conn.state # "REQUESTLINE" /\ Meant(r, conn, m_string)
    /\ pc \in Replying => conn.state # "REQUESTLINE" \/ r[1] = "junk"

(* Between two requests the slot is as init() leaves it.                   *)
Understood ==
    /\ pc = "closed" => sock = << >> /\ asked = << >>
    /\ odd = {} =>
         /\ pc # "open" /\ Len(asked) <= 1
         /\ asked = << >> => pc \in {"armed", "closed"} /\ sock = << >>
         /\ asked = << >> /\ pc = "armed" => conn = Cleared
         /\ asked # << >> => InHand(asked[1])

(* The line that parse_line finds: cr is the place of its CR.              *)
LineTo(c, cr) ==
    /\ cr \in Nat /\ c.start < cr /\ cr + 1 <= Len(c.buf)
    /\ c.buf[cr] = "CR" /\ c.buf[cr + 1] = "LF"
    /\ \A i \in c.start + 1 .. cr - 1 : c.buf[i] \notin {"CR", "LF"}

EndedAt(c, cr) == [c EXCEPT !.buf = [@ EXCEPT ![cr] = "NUL", ![cr + 1] = "NUL"],
                            !.checked = cr + 1]

(* The search can only begin behind a CR that is no longer there.          *)
LEMMA LineEndIs ==
    ASSUME NEW c \in ConnType, Fits(c), LineOk(c),
           c.start > 0 => c.buf[c.start] = "NUL",
           \A i \in c.start + 1 .. c.checked : c.buf[i] \notin {"CR", "LF"}
    PROVE  \E cr \in Nat : /\ LineTo(c, cr)
                           /\ Ended(c) = EndedAt(c, cr)
<1>1. /\ c.buf \in Texts /\ c.checked \in Nat /\ c.start \in Nat
      /\ Len(c.buf) \in Nat /\ c.start <= c.checked
  BY LenProperties DEF ConnType, Texts, Fits
<1>2. PICK cr : cr \in LineEnd(c) /\ cr = CHOOSE i \in LineEnd(c) : TRUE
  BY DEF LineOk
<1>3. Found(c) # {}
  BY <1>2 DEF LineEnd
<1>4. PICK i : i = Min(Found(c))
  OBVIOUS
<1>5. i \in Nat /\ c.checked < i /\ i <= Len(c.buf) /\ \A j \in Found(c) : i <= j
  BY <1>3, <1>4, FoundIs, MinIs
<1>6. /\ cr = i \/ (i > 2 /\ cr = i - 1)
      /\ cr < Len(c.buf) /\ c.buf[cr] = "CR" /\ c.buf[cr + 1] = "LF"
  BY <1>2, <1>3, <1>4 DEF LineEnd
<1>7. cr = i
  <2>1. SUFFICES ASSUME i > 2, cr = i - 1 PROVE FALSE
    BY <1>6
  <2>2. cr \in Nat /\ cr >= 1 /\ cr < i /\ cr <= Len(c.buf)
    BY <1>5, <2>1
  <2>3. cr \notin Found(c)
    BY <1>5, <2>2
  <2>4. cr = c.checked
    BY <1>1, <1>5, <1>6, <2>1, <2>2, <2>3 DEF Found
  <2>5. CASE c.start < cr
    BY <1>1, <1>6, <2>2, <2>4, <2>5
  <2>6. CASE c.start = cr
    BY <1>6, <2>2, <2>6
  <2> QED
    BY <1>1, <2>4, <2>5, <2>6
<1>8. \A j \in c.start + 1 .. cr - 1 : c.buf[j] \notin {"CR", "LF"}
  <2>1. SUFFICES ASSUME NEW j \in c.start + 1 .. cr - 1, c.checked < j
                 PROVE  c.buf[j] \notin {"CR", "LF"}
    BY <1>1, <1>5, <1>7
  <2>2. j \notin Found(c) /\ j \in c.checked + 1 .. Len(c.buf)
    BY <1>1, <1>5, <1>7, <2>1
  <2> QED
    BY <2>2 DEF Found
<1>9. LineTo(c, cr)
  BY <1>1, <1>5, <1>6, <1>7, <1>8 DEF LineTo
<1>10. Ended(c) = EndedAt(c, cr)
  BY <1>2, Zenon DEF Ended, EndedAt
<1> QED
  BY <1>5, <1>7, <1>9, <1>10

(* cut is n elements of e from behind the first a on.                      *)
Piece(S, e, a, n, cut) ==
    cut \in Seq(S) /\ Len(cut) = n /\ \A j \in 1..n : cut[j] = e[a + j]

LEMMA Cut ==
    ASSUME NEW S, NEW e \in Seq(S), NEW a \in Nat, NEW n \in Nat, a + n <= Len(e),
           NEW m \in Nat, m = a + n
    PROVE  Piece(S, e, a, n, SubSeq(e, a + 1, m))
<1>0. Len(e) \in Nat
  BY LenProperties
<1>1. PICK b \in Int, z \in Int : b = a + 1 /\ z = m
  OBVIOUS
<1>2. \A i \in b..z : i \in 1..Len(e)
  BY <1>0, <1>1
<1>3. \A i \in b..z : e[i] \in S
  BY <1>2, ElementOfSeq
<1>4. PICK cut : cut = SubSeq(e, b, z)
  OBVIOUS
<1>5. /\ cut \in Seq(S) /\ Len(cut) = IF b <= z THEN z - b + 1 ELSE 0
      /\ \A i \in 1 .. z - b + 1 : cut[i] = e[b + i - 1]
  BY <1>3, <1>4, SubSeqProperties
<1>6. z - b + 1 = n /\ (n > 0 <=> b <= z) /\ \A j \in Nat : b + j - 1 = a + j
  BY <1>1
<1>7. Len(cut) = n
  BY <1>5, <1>6
<1>8. ASSUME NEW j \in 1..n PROVE cut[j] = e[a + j]
  BY <1>5, <1>6, SMTT(30)
<1>9. Piece(S, e, a, n, cut)
  BY <1>5, <1>7, <1>8 DEF Piece
<1> QED
  BY <1>1, <1>4, <1>9

(* The text of d ends before the NUL at cr, and is then these symbols.      *)
Terminated(d, cr) ==
    /\ d.buf \in Texts /\ d.start \in Nat /\ cr \in Nat /\ d.start < cr
    /\ cr <= Len(d.buf) /\ d.buf[cr] = "NUL"
    /\ \A i \in d.start + 1 .. cr - 1 : d.buf[i] # "NUL"

TextUpTo(d, cr) ==
    /\ Text(d) \in Seq(Symbols \cup {"NUL"}) /\ Len(Text(d)) = cr - 1 - d.start
    /\ \A j \in 1 .. cr - 1 - d.start :
          /\ Text(d)[j] = d.buf[d.start + j]
          /\ d.start + j \in 1..Len(d.buf) /\ d.start + j < cr

LEMMA TextTo == ASSUME NEW d, NEW cr, Terminated(d, cr) PROVE TextUpTo(d, cr)
<1>0. /\ d.buf \in Texts /\ d.start \in Nat /\ cr \in Nat /\ d.start < cr
      /\ cr <= Len(d.buf) /\ d.buf[cr] = "NUL"
      /\ \A i \in d.start + 1 .. cr - 1 : d.buf[i] # "NUL"
  BY DEF Terminated
<1> DEFINE nuls == {i \in d.start + 1 .. Len(d.buf) : d.buf[i] = "NUL"}
<1>1. Len(d.buf) \in Nat
  BY <1>0, LenProperties DEF Texts
<1>2. cr \in nuls /\ nuls \subseteq Nat /\ \A i \in nuls : cr <= i
  BY <1>0, <1>1
<1>3. nuls # {} /\ Min(nuls) = cr
  <2> HIDE DEF nuls
  <2>1. PICK m : m = Min(nuls)
    OBVIOUS
  <2>2. m \in nuls /\ m <= cr
    BY <1>2, <2>1, MinIs
  <2>3. m \in Nat /\ cr <= m
    BY <1>2, <2>2
  <2> QED
    BY <1>2, <2>1, <2>2, <2>3
<1>4. Text(d) = SubSeq(d.buf, d.start + 1, cr - 1)
  <2>1. Text(d) = SubSeq(d.buf, d.start + 1, (IF nuls = {} THEN Len(d.buf) + 1 ELSE Min(nuls)) - 1)
    BY DEF Text
  <2> HIDE DEF nuls
  <2> QED
    BY <1>3, <2>1
<1>5. PICK e, start, cut : e = d.buf /\ start = d.start /\ cut = Text(d)
  OBVIOUS
<1>6. e \in Seq(Symbols \cup {"NUL"}) /\ start \in Nat /\ start < cr /\ cr <= Len(e)
      /\ cut = SubSeq(e, start + 1, cr - 1)
  BY <1>0, <1>4, <1>5 DEF Texts
<1>7. /\ cut \in Seq(Symbols \cup {"NUL"}) /\ Len(cut) = cr - 1 - start
      /\ \A j \in 1 .. cr - 1 - start :
           cut[j] = e[start + j] /\ start + j \in 1..Len(e) /\ start + j < cr
  <2>1. PICK n \in Nat, m \in Nat : n = cr - 1 - start /\ m = cr - 1
    BY <1>0, <1>6
  <2>2. m = start + n /\ start + n <= Len(e) /\ Len(e) \in Nat
    BY <1>0, <1>1, <1>5, <1>6, <2>1
  <2>3. Piece(Symbols \cup {"NUL"}, e, start, n, SubSeq(e, start + 1, m))
    BY <1>0, <1>5, <1>6, <2>2, Cut
  <2>4. Piece(Symbols \cup {"NUL"}, e, start, n, cut)
    BY <1>6, <2>1, <2>3
  <2>5. \A j \in 1..n : start + j \in 1..Len(e) /\ start + j < cr
    BY <1>0, <1>5, <2>1, <2>2, SMTT(30)
  <2> QED
    BY <2>1, <2>4, <2>5 DEF Piece
<1> QED
  <2>1. Text(d) \in Seq(Symbols \cup {"NUL"}) /\ Len(Text(d)) = cr - 1 - d.start
    BY <1>5, <1>7
  <2>2. ASSUME NEW j \in 1 .. cr - 1 - d.start
        PROVE  /\ Text(d)[j] = d.buf[d.start + j]
               /\ d.start + j \in 1..Len(d.buf) /\ d.start + j < cr
    <3>1. cut[j] = e[start + j] /\ start + j \in 1..Len(e) /\ start + j < cr
      BY <1>5, <1>7, <2>2
    <3> QED
      BY <1>5, <3>1
  <2> QED
    BY <2>1, <2>2 DEF TextUpTo

(* get_line returns the line.                                              *)
LEMMA LineIs ==
    ASSUME NEW c \in ConnType, Fits(c), NEW cr \in Nat, LineTo(c, cr),
           \A i \in c.start + 1 .. Len(c.buf) : c.buf[i] # "NUL",
           NEW d, d = EndedAt(c, cr)
    PROVE  /\ d.buf \in Texts /\ Len(d.buf) = Len(c.buf)
           /\ d.checked = cr + 1 /\ d.start = c.start
           /\ \A i \in 1..Len(c.buf) : d.buf[i] = IF i \in {cr, cr + 1} THEN "NUL" ELSE c.buf[i]
           /\ Text(d) \in Seq(Symbols \cup {"NUL"}) /\ Len(Text(d)) = cr - 1 - c.start
           /\ \A j \in 1 .. cr - 1 - c.start : Text(d)[j] = c.buf[c.start + j]
<1>1. /\ c.buf \in Texts /\ c.checked \in Nat /\ c.start \in Nat /\ Len(c.buf) \in Nat
      /\ c.start < cr /\ cr + 1 <= Len(c.buf)
  BY LenProperties DEF ConnType, Texts, LineTo
<1>2. PICK b : b = [c.buf EXCEPT ![cr] = "NUL"]
  OBVIOUS
<1>3. b \in Texts /\ Len(b) = Len(c.buf)
      /\ \A i \in 1..Len(c.buf) : b[i] = IF i = cr THEN "NUL" ELSE c.buf[i]
  BY <1>1, <1>2, ExceptSeq DEF Texts
<1>4. PICK e : e = [b EXCEPT ![cr + 1] = "NUL"]
  OBVIOUS
<1>5. e \in Texts /\ Len(e) = Len(c.buf)
      /\ \A i \in 1..Len(c.buf) : e[i] = IF i = cr + 1 THEN "NUL" ELSE b[i]
  BY <1>1, <1>3, <1>4, ExceptSeq DEF Texts
<1>6. PICK at \in Nat : at = cr + 1
  OBVIOUS
<1>7. d = [c EXCEPT !.buf = e, !.checked = at]
  BY <1>2, <1>4, <1>6 DEF EndedAt
<1>8. d.buf = e /\ d.checked = cr + 1 /\ d.start = c.start
  BY <1>6, <1>7 DEF ConnType
<1>9. \A i \in 1..Len(c.buf) : e[i] = IF i \in {cr, cr + 1} THEN "NUL" ELSE c.buf[i]
  BY <1>1, <1>3, <1>5
<1>10. /\ d.buf[cr] = "NUL" /\ d.start < cr /\ cr <= Len(d.buf)
       /\ \A i \in d.start + 1 .. cr - 1 : d.buf[i] # "NUL"
  BY <1>1, <1>5, <1>8, <1>9
<1>11. d.buf \in Texts /\ d.start \in Nat
  BY <1>1, <1>5, <1>8
<1>12. TextUpTo(d, cr)
  <2>1. Terminated(d, cr)
    BY <1>10, <1>11 DEF Terminated
  <2> QED
    BY <2>1, TextTo
<1>13. /\ Text(d) \in Seq(Symbols \cup {"NUL"}) /\ Len(Text(d)) = cr - 1 - d.start
       /\ \A j \in 1 .. cr - 1 - d.start :
             /\ Text(d)[j] = d.buf[d.start + j]
             /\ d.start + j \in 1..Len(d.buf) /\ d.start + j < cr
  BY <1>12 DEF TextUpTo
<1>14. \A j \in 1 .. cr - 1 - c.start : e[c.start + j] = c.buf[c.start + j]
  <2>1. \A i \in 1..Len(e) : i < cr => e[i] = c.buf[i]
    BY <1>5, <1>9
  <2> QED
    BY <1>5, <1>8, <1>13, <2>1
<1> QED
  BY <1>5, <1>8, <1>9, <1>13, <1>14

(* parse_line and get_line, when r is in the buffer c: the line that ends  *)
(* at cr is taken from it.                                                 *)
Taken(r, s, c, cr) ==
    /\ cr \in Nat /\ c.start < cr /\ cr + 1 <= Len(r) /\ r[cr] = "CR" /\ r[cr + 1] = "LF"
    /\ \A i \in c.start + 1 .. cr - 1 : r[i] \notin {"CR", "LF"}
    /\ Text(Ended(c)) \in Seq(Symbols \cup {"NUL"}) /\ Len(Text(Ended(c))) = cr - 1 - c.start
    /\ \A j \in 1 .. cr - 1 - c.start : Text(Ended(c))[j] = r[c.start + j]

After(r, s, c, cr, d) ==
    /\ d \in ConnType /\ Fits(d) /\ InBuffer(r, d, s)
    /\ d.start = cr + 1 /\ d.checked = cr + 1 /\ d.state = c.state
    /\ d.linger = c.linger /\ d.clen = c.clen /\ d.cgi = c.cgi

LEMMA LineTaken ==
    ASSUME NEW c \in ConnType, Fits(c), NEW r \in Seq(Symbols), NEW s \in Seq(Symbols),
           InBuffer(r, c, s), LineOk(c)
    PROVE  \E cr \in Nat : Taken(r, s, c, cr) /\ After(r, s, c, cr, Consumed(Ended(c)))
<1>1. /\ c.buf \in Texts /\ c.checked \in Nat /\ c.start \in Nat
      /\ Len(c.buf) \in Nat /\ Len(r) \in Nat /\ Len(s) \in Nat /\ c.start <= c.checked
      /\ c.checked <= Len(c.buf)
  BY LenProperties DEF ConnType, Texts, Fits
<1>2. /\ Len(c.buf) + Len(s) = Len(r)
      /\ \A i \in 1..Len(s) : s[i] = r[Len(c.buf) + i]
      /\ \A i \in c.start + 1 .. Len(c.buf) : c.buf[i] = r[i]
      /\ c.start > 0 => c.buf[c.start] = "NUL"
      /\ \A i \in c.start + 1 .. c.checked : r[i] \notin {"CR", "LF"}
  BY DEF InBuffer
<1>3. \A i \in c.start + 1 .. c.checked : c.buf[i] \notin {"CR", "LF"}
  BY <1>1, <1>2, SMTT(30)
<1>4. \A i \in c.start + 1 .. Len(c.buf) : c.buf[i] # "NUL"
  <2>1. \A i \in 1..Len(r) : r[i] \in Symbols
    BY ElementOfSeq
  <2>2. "NUL" \notin Symbols
    BY DEF Symbols, Words
  <2>3. \A i \in c.start + 1 .. Len(c.buf) : i \in 1..Len(r)
    BY <1>1, <1>2
  <2> QED
    BY <1>2, <2>1, <2>2, <2>3
<1>5. PICK cr \in Nat : LineTo(c, cr) /\ Ended(c) = EndedAt(c, cr)
  BY <1>2, <1>3, LineEndIs
<1>6. PICK e : e = Ended(c)
  OBVIOUS
<1>7. /\ e.buf \in Texts /\ Len(e.buf) = Len(c.buf)
      /\ e.checked = cr + 1 /\ e.start = c.start
      /\ \A i \in 1..Len(c.buf) : e.buf[i] = IF i \in {cr, cr + 1} THEN "NUL" ELSE c.buf[i]
      /\ Text(e) \in Seq(Symbols \cup {"NUL"}) /\ Len(Text(e)) = cr - 1 - c.start
      /\ \A j \in 1 .. cr - 1 - c.start : Text(e)[j] = c.buf[c.start + j]
  BY <1>4, <1>5, <1>6, LineIs
<1>8. /\ e \in ConnType /\ Fits(e) /\ e.state = c.state /\ e.linger = c.linger
      /\ e.clen = c.clen /\ e.cgi = c.cgi
  BY <1>6, EndedIs
<1>9. PICK d : d = Consumed(e)
  OBVIOUS
<1>10. /\ d \in ConnType /\ Fits(d) /\ d.buf = e.buf /\ d.checked = cr + 1
       /\ d.start = cr + 1 /\ d.state = c.state /\ d.linger = c.linger
       /\ d.clen = c.clen /\ d.cgi = c.cgi
  BY <1>7, <1>8, <1>9, ConsumedIs
<1>11. /\ c.start < cr /\ cr + 1 <= Len(c.buf) /\ cr + 1 <= Len(r)
       /\ c.buf[cr] = "CR" /\ c.buf[cr + 1] = "LF"
       /\ \A i \in c.start + 1 .. cr - 1 : c.buf[i] \notin {"CR", "LF"}
       /\ cr \in c.start + 1 .. Len(c.buf) /\ cr + 1 \in c.start + 1 .. Len(c.buf)
       /\ \A i \in c.start + 1 .. cr - 1 : i \in c.start + 1 .. Len(c.buf)
  BY <1>1, <1>2, <1>5 DEF LineTo
<1>12. Taken(r, s, c, cr)
  <2>1. r[cr] = "CR" /\ r[cr + 1] = "LF"
    BY <1>2, <1>11
  <2>2. \A i \in c.start + 1 .. cr - 1 : r[i] \notin {"CR", "LF"}
    BY <1>2, <1>11
  <2>3. ASSUME NEW j \in 1 .. cr - 1 - c.start
        PROVE  c.buf[c.start + j] = r[c.start + j]
    <3>1. c.start + j \in c.start + 1 .. Len(c.buf)
      BY <1>1, <1>11
    <3> QED
      BY <1>2, <3>1
  <2> QED
    BY <1>6, <1>7, <1>11, <2>1, <2>2, <2>3 DEF Taken
<1>13. InBuffer(r, d, s)
  <2>1. /\ \A i \in 1..Len(c.buf) :
             d.buf[i] = IF i \in {cr, cr + 1} THEN "NUL" ELSE c.buf[i]
        /\ Len(d.buf) = Len(c.buf)
    BY <1>7, <1>10
  <2>2. \A i \in cr + 2 .. Len(c.buf) : d.buf[i] = r[i]
    BY <1>1, <1>2, <1>11, <2>1
  <2>3. d.buf[cr + 1] = "NUL"
    <3>1. cr + 1 \in 1..Len(c.buf)
      BY <1>1, <1>11
    <3> QED
      BY <2>1, <3>1
  <2>4. \A i \in d.start + 1 .. Len(d.buf) : d.buf[i] = r[i]
    BY <1>10, <2>1, <2>2
  <2> QED
    BY <1>2, <1>10, <2>1, <2>3, <2>4 DEF InBuffer
<1>14. After(r, s, c, cr, d)
  BY <1>10, <1>13 DEF After
<1> QED
  BY <1>6, <1>9, <1>12, <1>14

(* What the line was.                                                      *)
LEMMA LineWas ==
    ASSUME NEW c \in ConnType, NEW r, NEW s, NEW cr, Taken(r, s, c, cr)
    PROVE  /\ Text(Ended(c)) = << >> <=> cr = c.start + 1
           /\ \A word : Text(Ended(c)) = <<word>> <=> cr = c.start + 2 /\ r[c.start + 1] = word
<1>1. PICK t, n : t = Text(Ended(c)) /\ n = cr - 1 - c.start
  OBVIOUS
<1>2. /\ cr \in Nat /\ c.start \in Nat /\ c.start < cr
      /\ t \in Seq(Symbols \cup {"NUL"}) /\ Len(t) = n
      /\ \A j \in 1..n : t[j] = r[c.start + j]
  BY <1>1 DEF Taken, ConnType
<1>3. n \in Nat /\ (n = 0 <=> cr = c.start + 1) /\ (n = 1 <=> cr = c.start + 2)
  BY <1>1, <1>2
<1>4. t = << >> <=> n = 0
  BY <1>2, EmptySeq
<1>5. ASSUME NEW word
      PROVE  t = <<word>> <=> n = 1 /\ r[c.start + 1] = word
  <2>1. CASE t = <<word>>
    <3>1. Len(t) = 1 /\ t[1] = word
      BY <2>1
    <3>2. n = 1
      BY <1>2, <3>1
    <3> QED
      BY <1>2, <2>1, <3>1, <3>2
  <2>2. CASE n = 1 /\ r[c.start + 1] = word
    <3>1. Len(t) = 1 /\ t[1] = word
      BY <1>2, <2>2
    <3> QED
      BY <1>2, <2>2, <3>1
  <2> QED
    BY <2>1, <2>2
<1> QED
  BY <1>1, <1>3, <1>4, <1>5

(* A line of the request r, between k and cr.                              *)
IsLine(r, k, cr) ==
    /\ k \in Nat /\ cr \in Nat /\ k < cr /\ cr + 1 <= Len(r)
    /\ r[cr] = "CR" /\ r[cr + 1] = "LF"
    /\ \A i \in k + 1 .. cr - 1 : r[i] \notin {"CR", "LF"}

Marks == {"keep", "len"}

LEMMA LegibleMarks ==
    ASSUME NEW r \in Seq(Symbols), Legible(r), NEW i \in 1..Len(r), r[i] \in Marks
    PROVE  /\ i > 1 /\ r[i - 1] = "LF" /\ (i < Len(r) => r[i + 1] = "CR")
           /\ \A j \in 1 .. i - 1 : ~HeaderEndsAt(r, j)
BY DEF Legible, Marks

LEMMA MarksInLine ==
    ASSUME NEW r \in Seq(Symbols), Legible(r), NEW k, NEW cr, IsLine(r, k, cr),
           k > 0, r[k] = "LF", NEW word \in Marks
    PROVE  Upto(r, cr + 1, word) <=> Upto(r, k, word) \/ (cr = k + 2 /\ r[k + 1] = word)
<1>1. /\ k \in Nat /\ cr \in Nat /\ Len(r) \in Nat /\ k < cr /\ cr + 1 <= Len(r)
      /\ r[cr] = "CR" /\ r[cr + 1] = "LF"
      /\ \A i \in k + 1 .. cr - 1 : r[i] \notin {"CR", "LF"}
  BY LenProperties DEF IsLine
<1>2. word \notin {"CR", "LF"}
  BY DEF Marks
<1>3. ASSUME Upto(r, k, word) \/ (cr = k + 2 /\ r[k + 1] = word)
      PROVE  Upto(r, cr + 1, word)
  BY <1>1, <1>3 DEF Upto
<1>4. ASSUME NEW i \in 1 .. cr + 1, r[i] = word, ~(i <= k)
      PROVE  cr = k + 2 /\ r[k + 1] = word
  <2>1. i \in 1..Len(r) /\ i # cr /\ i # cr + 1 /\ i < Len(r)
    BY <1>1, <1>2, <1>4
  <2>2. r[i - 1] = "LF" /\ r[i + 1] = "CR"
    BY <1>4, <2>1, LegibleMarks
  <2>3. i = k + 1
    <3>1. i - 1 \notin k + 1 .. cr - 1
      BY <1>1, <2>2
    <3> QED
      BY <1>1, <1>4, <2>1, <3>1
  <2>4. i = cr - 1
    <3>1. i + 1 \notin k + 1 .. cr - 1
      BY <1>1, <2>2
    <3> QED
      BY <1>1, <1>4, <2>1, <3>1
  <2> QED
    BY <1>1, <1>4, <2>3, <2>4
<1>5. Upto(r, cr + 1, word) => Upto(r, k, word) \/ (cr = k + 2 /\ r[k + 1] = word)
  BY <1>1, <1>4 DEF Upto
<1> QED
  BY <1>3, <1>5

(* A line with text does not end the header.                               *)
LEMMA HeaderGoesOn ==
    ASSUME NEW r \in Seq(Symbols), NEW k, NEW cr, IsLine(r, k, cr), cr # k + 1,
           NoEndBefore(r, k)
    PROVE  NoEndBefore(r, cr + 1) /\ r[cr + 1] = "LF"
<1>1. /\ k \in Nat /\ cr \in Nat /\ Len(r) \in Nat /\ k < cr /\ cr + 1 <= Len(r)
      /\ r[cr] = "CR" /\ r[cr + 1] = "LF"
      /\ \A i \in k + 1 .. cr - 1 : r[i] \notin {"CR", "LF"}
  BY LenProperties DEF IsLine
<1>2. ASSUME NEW j \in 1 .. cr, HeaderEndsAt(r, j) PROVE FALSE
  <2>1. r[j] = "LF" /\ r[j + 1] = "CR"
    BY <1>2 DEF HeaderEndsAt
  <2>2. CASE j <= k - 1
    BY <1>1, <1>2, <2>2 DEF NoEndBefore
  <2>3. CASE j = k
    <3>1. k + 1 \in k + 1 .. cr - 1
      BY <1>1
    <3> QED
      BY <1>1, <2>1, <2>3, <3>1
  <2>4. CASE j \in k + 1 .. cr - 1
    BY <1>1, <2>1, <2>4
  <2>5. CASE j = cr
    BY <1>1, <2>1, <2>5
  <2> QED
    BY <1>1, <2>2, <2>3, <2>4, <2>5
<1> QED
  BY <1>1, <1>2 DEF NoEndBefore

(* The empty line does.                                                    *)
LEMMA HeaderEnds ==
    ASSUME NEW r \in Seq(Symbols), Legible(r), NEW k, NEW cr, IsLine(r, k, cr), cr = k + 1,
           k > 0, r[k] = "LF"
    PROVE  /\ HeaderEndsAt(r, k) /\ r[k + 2] = "LF"
           /\ \A word \in Marks : Has(r, word) <=> Upto(r, k, word)
           /\ Has(r, "keep") => Len(r) <= k + 2 + (IF Has(r, "len") THEN BodyLen ELSE 0)
<1>1. /\ k \in Nat /\ Len(r) \in Nat /\ k + 2 <= Len(r) /\ r[k + 1] = "CR" /\ r[k + 2] = "LF"
  BY LenProperties DEF IsLine
<1>2. HeaderEndsAt(r, k) /\ k \in 1..Len(r)
  BY <1>1 DEF HeaderEndsAt
<1>3. ASSUME NEW word \in Marks, NEW i \in 1..Len(r), r[i] = word
      PROVE  i <= k
  <2>1. SUFFICES ASSUME k < i PROVE FALSE
    BY <1>1
  <2>2. k \in 1 .. i - 1
    BY <1>1, <2>1
  <2> QED
    BY <1>2, <1>3, <2>2, LegibleMarks
<1>4. \A word \in Marks : Has(r, word) <=> Upto(r, k, word)
  BY <1>1, <1>3 DEF Has, Upto
<1>5. Has(r, "keep") => Len(r) <= k + 2 + (IF Has(r, "len") THEN BodyLen ELSE 0)
  BY <1>2 DEF Legible
<1> QED
  BY <1>1, <1>2, <1>4, <1>5

(* Body finds that place.                                                  *)
LEMMA BodyIs ==
    ASSUME NEW r \in Seq(Symbols), NEW k \in Nat, HeaderEndsAt(r, k), NoEndBefore(r, k)
    PROVE  Body(r) = SubSeq(r, k + 3, k + 2 + BodyLen)
<1> DEFINE ends == {i \in 1..Len(r) : HeaderEndsAt(r, i)}
<1>1. k \in 1..Len(r) /\ Len(r) \in Nat
  BY LenProperties DEF HeaderEndsAt
<1>2. k \in ends /\ ends \subseteq Nat
  BY <1>1
<1>3. \A i \in ends : k <= i
  BY <1>1 DEF NoEndBefore
<1>4. PICK m : m = Min(ends)
  OBVIOUS
<1>5. m = k
  <2> HIDE DEF ends
  <2>1. m \in ends /\ m <= k
    BY <1>2, <1>4, MinIs
  <2> QED
    BY <1>2, <1>3, <2>1
<1> QED
  BY <1>4, <1>5 DEF Body

-----------------------------------------------------------------------------
(* The turns of the parser's loop.                                         *)
LEMMA SameBuffer ==
    ASSUME NEW r, NEW s, NEW c, NEW d, InBuffer(r, c, s),
           d.buf = c.buf, d.start = c.start, d.checked = c.checked
    PROVE  InBuffer(r, d, s)
BY DEF InBuffer

(* What a turn starts from.                                                *)
Turn(r) == /\ conn \in ConnType /\ Fits(conn) /\ r \in Seq(Symbols) /\ sock \in Seq(Symbols)
           /\ Legible(r) /\ Reading(r, conn, sock) /\ pc = "lines"

LEMMA TurnLine ==
    ASSUME NEW r, Turn(r), LineOk(conn)
    PROVE  \E cr \in Nat : /\ IsLine(r, conn.start, cr) /\ After(r, sock, conn, cr, NextLine)
                           /\ Line = << >> <=> cr = conn.start + 1
                           /\ \A word : Line = <<word>>
                                          <=> cr = conn.start + 2 /\ r[conn.start + 1] = word
<1>1. PICK cr \in Nat : Taken(r, sock, conn, cr) /\ After(r, sock, conn, cr, NextLine)
  BY LineTaken DEF Turn, Reading, NextLine
<1>2. conn.start \in Nat
  BY DEF Turn, ConnType
<1>3. IsLine(r, conn.start, cr)
  BY <1>1, <1>2 DEF Taken, IsLine
<1> QED
  BY <1>1, <1>3, LineWas DEF Turn, Line

LEMMA RequestLineTurn ==
    ASSUME NEW r, Turn(r), parse_request_line
    PROVE  InHand(r)'
<1>1. /\ conn.state = "REQUESTLINE" /\ LineOk(conn) /\ sock' = sock
      /\ IF Line \in {<<"get">>, <<"post">>}
         THEN /\ pc' = "lines"
              /\ conn' = [NextLine EXCEPT !.state = "HEADER", !.cgi = Line = <<"post">>]
         ELSE pc' = "BAD_REQUEST" /\ conn' = NextLine
  BY DEF parse_request_line, TakesLine, ByParser
<1>2. PICK cr \in Nat : /\ IsLine(r, conn.start, cr) /\ After(r, sock, conn, cr, NextLine)
                        /\ \A word : Line = <<word>>
                                       <=> cr = conn.start + 2 /\ r[conn.start + 1] = word
  BY <1>1, TurnLine
<1>3. PICK d, line : d = NextLine /\ line = Line
  OBVIOUS
<1>4. conn.start = 0 /\ ~conn.linger /\ conn.clen = 0
  BY <1>1 DEF Turn, Reading
<1>5. /\ d \in ConnType /\ InBuffer(r, d, sock) /\ d.start = cr + 1 /\ d.checked = cr + 1
      /\ ~d.linger /\ d.clen = 0
  BY <1>2, <1>3, <1>4 DEF After
<1>6. /\ cr >= 1 /\ r[cr] = "CR" /\ r[cr + 1] = "LF" /\ Len(r) \in Nat /\ cr + 1 <= Len(r)
      /\ \A i \in 1 .. cr - 1 : r[i] \notin {"CR", "LF"}
  BY <1>2, <1>4, LenProperties DEF IsLine
<1>7. r[1] \in {"get", "post", "junk"} /\ r[2] \in {"CR", "LF"}
  BY <1>6 DEF Turn, Legible
<1>8. cr = 2
  <2>1. cr # 1
    BY <1>6, <1>7
  <2>2. ~(2 \in 1 .. cr - 1)
    BY <1>6, <1>7
  <2> QED
    BY <1>6, <2>1, <2>2
<1>9. \A word : line = <<word>> <=> r[1] = word
  BY <1>2, <1>3, <1>4, <1>8
<1>10. CASE line \in {<<"get">>, <<"post">>}
  <2>1. PICK cgi \in BOOLEAN : cgi = (line = <<"post">>)
    OBVIOUS
  <2>2. conn' = [d EXCEPT !.state = "HEADER", !.cgi = cgi] /\ pc' = "lines"
    BY <1>1, <1>3, <1>10, <2>1
  <2>3. /\ conn'.state = "HEADER" /\ conn'.cgi = cgi /\ conn'.buf = d.buf
        /\ conn'.start = d.start /\ conn'.checked = d.checked
        /\ conn'.linger = d.linger /\ conn'.clen = d.clen
    BY <1>5, <2>2 DEF ConnType
  <2>4. InBuffer(r, conn', sock)
    BY <1>5, <2>3, SameBuffer
  <2>5. r[1] \in {"get", "post"} /\ cgi = (r[1] = "post")
    BY <1>9, <1>10, <2>1
  <2>6. conn'.start = 3 /\ r[2] = "CR" /\ r[3] = "LF"
    BY <1>5, <1>6, <1>8, <2>3
  <2>7. ~Upto(r, 3, "keep") /\ ~Upto(r, 3, "len")
    <3>1. \A i \in 1..3 : i = 1 \/ i = 2 \/ i = 3
      OBVIOUS
    <3> QED
      BY <2>5, <2>6, <3>1 DEF Upto
  <2>8. NoEndBefore(r, 3)
    <3>1. \A i \in 1 .. 3 - 1 : i = 1 \/ i = 2
      OBVIOUS
    <3> QED
      BY <2>5, <2>6, <3>1 DEF NoEndBefore, HeaderEndsAt
  <2>9. Known(r, conn')
    <3>1. conn'.linger = FALSE /\ conn'.clen = 0 /\ Upto(r, 3, "keep") = FALSE
      BY <1>5, <2>3, <2>7 DEF ConnType, Upto
    <3> QED
      BY <2>3, <2>5, <2>6, <2>7, <3>1 DEF Known
  <2>10. Reading(r, conn', sock)
    BY <2>3, <2>4, <2>6, <2>8, <2>9 DEF Reading
  <2> QED
    BY <1>1, <2>2, <2>10 DEF InHand, Replying
<1>11. CASE line \notin {<<"get">>, <<"post">>}
  <2>1. r[1] = "junk"
    BY <1>7, <1>9, <1>11
  <2>2. conn' = d /\ pc' = "BAD_REQUEST"
    BY <1>1, <1>3, <1>11
  <2> QED
    BY <1>5, <2>1, <2>2 DEF InHand, Replying
<1> QED
  BY <1>10, <1>11

LEMMA HeadersTurn ==
    ASSUME NEW r, Turn(r), parse_headers
    PROVE  InHand(r)'
<1>1. /\ conn.state = "HEADER" /\ LineOk(conn) /\ sock' = sock /\ Line # << >> /\ pc' = "lines"
      /\ conn' = CASE Line = <<"keep">> -> [NextLine EXCEPT !.linger = TRUE]
                   [] Line = <<"len">> -> [NextLine EXCEPT !.clen = BodyLen]
                   [] OTHER -> NextLine
  BY DEF parse_headers, TakesLine, ByParser
<1>2. PICK cr \in Nat : /\ IsLine(r, conn.start, cr) /\ After(r, sock, conn, cr, NextLine)
                        /\ Line = << >> <=> cr = conn.start + 1
                        /\ \A word : Line = <<word>>
                                       <=> cr = conn.start + 2 /\ r[conn.start + 1] = word
  BY <1>1, TurnLine
<1>3. PICK d, line, k : d = NextLine /\ line = Line /\ k = conn.start
  OBVIOUS
<1>4. /\ Known(r, conn) /\ k > 0 /\ r[k] = "LF" /\ NoEndBefore(r, k)
      /\ r \in Seq(Symbols) /\ Legible(r)
  BY <1>1, <1>3 DEF Turn, Reading
<1>5. /\ d \in ConnType /\ InBuffer(r, d, sock) /\ d.start = cr + 1 /\ d.checked = cr + 1
      /\ d.state = "HEADER" /\ d.linger = conn.linger /\ d.clen = conn.clen
      /\ d.cgi = conn.cgi
  BY <1>1, <1>2, <1>3 DEF After
<1>6. \A word : line = <<word>> <=> cr = k + 2 /\ r[k + 1] = word
  BY <1>2, <1>3
<1>7. IsLine(r, k, cr) /\ cr # k + 1
  BY <1>1, <1>2, <1>3
<1>8. NoEndBefore(r, cr + 1) /\ r[cr + 1] = "LF"
  BY <1>4, <1>7, HeaderGoesOn
<1>9. \A word \in Marks : Upto(r, cr + 1, word) <=> Upto(r, k, word) \/ line = <<word>>
  BY <1>4, <1>6, <1>7, MarksInLine
<1>10. /\ r[1] \in {"get", "post"} /\ conn.cgi = (r[1] = "post")
       /\ conn.linger = Upto(r, k, "keep")
       /\ conn.clen = IF Upto(r, k, "len") THEN BodyLen ELSE 0
  BY <1>3, <1>4 DEF Known
<1>11. <<"keep">> # <<"len">>
  <2>1. <<"keep">>[1] = "keep" /\ <<"len">>[1] = "len"
    OBVIOUS
  <2> QED
    BY <2>1
<1>12. /\ conn'.linger = (conn.linger \/ line = <<"keep">>)
       /\ conn'.clen = (IF line = <<"len">> THEN BodyLen ELSE conn.clen)
       /\ conn'.state = "HEADER" /\ conn'.cgi = conn.cgi /\ conn'.buf = d.buf
       /\ conn'.start = d.start /\ conn'.checked = d.checked
  <2>1. CASE line = <<"keep">>
    <3>1. conn' = [d EXCEPT !.linger = TRUE]
      BY <1>1, <1>3, <2>1
    <3> QED
      BY <1>5, <1>11, <2>1, <3>1 DEF ConnType
  <2>2. CASE line = <<"len">>
    <3>1. conn' = [d EXCEPT !.clen = BodyLen]
      BY <1>1, <1>3, <1>11, <2>2
    <3>2. d.linger \in BOOLEAN /\ conn.linger \in BOOLEAN
      BY <1>5 DEF ConnType
    <3> QED
      BY <1>5, <1>11, <2>2, <3>1, <3>2 DEF ConnType
  <2>3. CASE line # <<"keep">> /\ line # <<"len">>
    <3>1. conn' = d
      BY <1>1, <1>3, <2>3
    <3>2. conn.linger \in BOOLEAN
      BY <1>5 DEF ConnType
    <3> QED
      BY <1>5, <2>3, <3>1, <3>2
  <2> QED
    BY <2>1, <2>2, <2>3
<1>13. InBuffer(r, conn', sock)
  BY <1>5, <1>12, SameBuffer
<1>14. Known(r, conn')
  <2>1. conn'.start = cr + 1 /\ "keep" \in Marks /\ "len" \in Marks
    BY <1>5, <1>12 DEF Marks
  <2>2. conn'.linger = Upto(r, cr + 1, "keep")
    <3>1. Upto(r, cr + 1, "keep") <=> Upto(r, k, "keep") \/ line = <<"keep">>
      BY <1>9, <2>1
    <3> QED
      BY <1>10, <1>12, <3>1 DEF Upto
  <2>3. conn'.clen = IF Upto(r, cr + 1, "len") THEN BodyLen ELSE 0
    BY <1>9, <1>10, <1>12, <2>1
  <2> QED
    BY <1>10, <1>12, <2>1, <2>2, <2>3 DEF Known
<1>15. Reading(r, conn', sock)
  <2>1. conn'.start = cr + 1 /\ cr + 1 > 0
    BY <1>5, <1>12
  <2> QED
    BY <1>8, <1>12, <1>13, <1>14, <2>1 DEF Reading
<1> QED
  BY <1>1, <1>15 DEF InHand, Replying

LEMMA NothingLeft ==
    ASSUME NEW r, NEW c, NEW s \in Seq(Symbols), InBuffer(r, c, s), c.buf \in Texts,
           Len(r) <= Len(c.buf)
    PROVE  s = << >>
<1>1. Len(c.buf) \in Nat /\ Len(s) \in Nat /\ Len(c.buf) + Len(s) = Len(r)
  BY LenProperties DEF InBuffer, Texts
<1>2. Len(s) = 0
  BY <1>1
<1> QED
  BY <1>2, EmptySeq

LEMMA HeaderEndTurn ==
    ASSUME ConnAssumption, NEW r, Turn(r), HeaderEnd
    PROVE  InHand(r)'
<1>1. /\ conn.state = "HEADER" /\ LineOk(conn) /\ sock' = sock /\ Line = << >>
      /\ IF conn.clen # 0
         THEN pc' = "lines" /\ conn' = [NextLine EXCEPT !.state = "CONTENT"]
         ELSE pc' = "do_request" /\ conn' = NextLine
  BY DEF HeaderEnd, TakesLine, ByParser
<1>2. PICK cr \in Nat : /\ IsLine(r, conn.start, cr) /\ After(r, sock, conn, cr, NextLine)
                        /\ Line = << >> <=> cr = conn.start + 1
  BY <1>1, TurnLine
<1>3. PICK d, k : d = NextLine /\ k = conn.start
  OBVIOUS
<1>4. /\ Known(r, conn) /\ k > 0 /\ r[k] = "LF" /\ NoEndBefore(r, k)
      /\ r \in Seq(Symbols) /\ Legible(r) /\ sock \in Seq(Symbols) /\ k \in Nat
  BY <1>1, <1>3 DEF Turn, Reading, ConnType
<1>5. cr = k + 1 /\ IsLine(r, k, cr)
  BY <1>1, <1>2, <1>3
<1>6. /\ d \in ConnType /\ Fits(d) /\ InBuffer(r, d, sock)
      /\ d.start = k + 2 /\ d.checked = k + 2
      /\ d.state = "HEADER" /\ d.linger = conn.linger /\ d.clen = conn.clen
      /\ d.cgi = conn.cgi
  BY <1>1, <1>2, <1>3, <1>4, <1>5 DEF After
<1>7. /\ HeaderEndsAt(r, k)
      /\ \A word \in Marks : Has(r, word) <=> Upto(r, k, word)
      /\ Has(r, "keep") => Len(r) <= k + 2 + (IF Has(r, "len") THEN BodyLen ELSE 0)
  BY <1>4, <1>5, HeaderEnds
<1>8. BodyLen \in Nat \ {0} /\ conn \in ConnType
  BY Sizes DEF Turn
<1>9. /\ conn.cgi = (r[1] = "post") /\ conn.linger = Has(r, "keep")
      /\ conn.clen = IF Has(r, "len") THEN BodyLen ELSE 0
  <2>1. (Has(r, "keep") <=> Upto(r, k, "keep")) /\ (Has(r, "len") <=> Upto(r, k, "len"))
    BY <1>7 DEF Marks
  <2>2. Has(r, "keep") = Upto(r, k, "keep")
    BY <2>1 DEF Has, Upto
  <2> QED
    BY <1>3, <1>4, <2>1, <2>2 DEF Known
<1>10. CASE conn.clen # 0
  <2>1. conn' = [d EXCEPT !.state = "CONTENT"] /\ pc' = "lines"
    BY <1>1, <1>3, <1>10
  <2>2. /\ conn'.state = "CONTENT" /\ conn'.cgi = d.cgi /\ conn'.buf = d.buf
        /\ conn'.start = d.start /\ conn'.checked = d.checked
        /\ conn'.linger = d.linger /\ conn'.clen = d.clen
    BY <1>6, <2>1 DEF ConnType
  <2>3. InBuffer(r, conn', sock)
    BY <1>6, <2>2, SameBuffer
  <2>4. Has(r, "len") /\ conn'.clen = BodyLen
    BY <1>6, <1>9, <1>10, <2>2
  <2>5. conn'.start - 2 = k /\ conn'.start > 2
    BY <1>4, <1>6, <2>2
  <2>6. Reading(r, conn', sock)
    BY <1>4, <1>6, <1>7, <1>9, <2>2, <2>3, <2>4, <2>5 DEF Reading
  <2> QED
    BY <1>1, <2>1, <2>6 DEF InHand, Replying
<1>11. CASE conn.clen = 0
  <2>1. conn' = d /\ pc' = "do_request"
    BY <1>1, <1>3, <1>11
  <2>2. ~Has(r, "len")
    BY <1>8, <1>9, <1>11
  <2>3. d.linger => sock = << >>
    <3>1. d.buf \in Texts /\ Len(d.buf) \in Nat /\ k + 2 <= Len(d.buf) /\ Len(r) \in Nat
      BY <1>4, <1>6, LenProperties DEF Fits, ConnType, Texts
    <3>2. d.linger => Len(r) <= Len(d.buf)
      BY <1>4, <1>6, <1>7, <1>9, <2>2, <3>1
    <3> QED
      BY <1>4, <1>6, <3>1, <3>2, NothingLeft
  <2>4. Meant(r, d, m_string')
    BY <1>6, <1>9, <2>2 DEF Meant
  <2> QED
    BY <1>1, <1>6, <2>1, <2>3, <2>4 DEF InHand, Replying
<1> QED
  BY <1>10, <1>11

LEMMA SameCut ==
    ASSUME NEW S, NEW n \in Nat, NEW s \in Seq(S), NEW t \in Seq(S), Len(s) = n, Len(t) = n,
           \A j \in 1..n : s[j] = t[j]
    PROVE  s = t
BY SeqEqual

(* The first n symbols from m_start_line on are those of the request.      *)
LEMMA ContentText ==
    ASSUME NEW c \in ConnType, Fits(c), NEW r \in Seq(Symbols), NEW s \in Seq(Symbols),
           InBuffer(r, c, s), NEW n \in Nat, Len(c.buf) >= n + c.start
    PROVE  SubSeq(Text(c), 1, Min({n, Len(Text(c))})) = SubSeq(r, c.start + 1, c.start + n)
<1> DEFINE nuls == {i \in c.start + 1 .. Len(c.buf) : c.buf[i] = "NUL"}
           S == Symbols \cup {"NUL"}
<1>1. /\ c.buf \in Seq(S) /\ c.start \in Nat /\ Len(c.buf) \in Nat /\ Len(r) \in Nat
      /\ Len(c.buf) <= Len(r) /\ c.start + n <= Len(c.buf) /\ c.start <= Len(c.buf)
      /\ \A i \in c.start + 1 .. Len(c.buf) : c.buf[i] = r[i]
  <2>1. Len(c.buf) + Len(s) = Len(r) /\ \A i \in c.start + 1 .. Len(c.buf) : c.buf[i] = r[i]
    BY DEF InBuffer
  <2>2. /\ c.buf \in Seq(S) /\ c.start \in Nat /\ Len(c.buf) \in Nat /\ Len(r) \in Nat
        /\ Len(s) \in Nat
    BY LenProperties DEF ConnType, Texts
  <2> QED
    BY <2>1, <2>2, SMTT(30)
<1>2. nuls = {}
  <2>1. \A i \in 1..Len(r) : r[i] \in Symbols
    BY ElementOfSeq
  <2>2. "NUL" \notin Symbols
    BY DEF Symbols, Words
  <2>3. \A i \in c.start + 1 .. Len(c.buf) : i \in 1..Len(r)
    BY <1>1
  <2> QED
    BY <1>1, <2>1, <2>2, <2>3
<1>3. PICK e, a, len, t : e = c.buf /\ a = c.start /\ len = Len(c.buf) /\ t = Text(c)
  OBVIOUS
<1>4. t = SubSeq(e, a + 1, len)
  <2>1. Text(c) = SubSeq(c.buf, c.start + 1, (IF nuls = {} THEN Len(c.buf) + 1 ELSE Min(nuls)) - 1)
    BY DEF Text
  <2> HIDE DEF nuls
  <2>2. (len + 1) - 1 = len
    BY <1>1, <1>3
  <2> QED
    BY <1>2, <1>3, <2>1, <2>2
<1>5. /\ a \in Nat /\ len \in Nat /\ e \in Seq(S) /\ Len(e) = len /\ len <= Len(r) /\ a + n <= len /\ a <= len
      /\ \A i \in a + 1 .. len : e[i] = r[i]
  BY <1>1, <1>3
<1> HIDE DEF S, nuls
<1>6. PICK rest \in Nat : rest = len - a
  BY <1>5
<1>7. t \in Seq(S) /\ Len(t) = rest /\ \A j \in 1..rest : t[j] = e[a + j]
  <2>1. /\ a + rest <= Len(e) /\ len = a + rest /\ e \in Seq(S)
        /\ a \in Nat /\ rest \in Nat /\ len \in Nat
    BY <1>5, <1>6
  <2>2. Piece(S, e, a, rest, SubSeq(e, a + 1, len))
    BY <2>1, Cut
  <2> QED
    BY <1>4, <2>2 DEF Piece
<1>8. PICK m : m = Min({n, Len(t)})
  OBVIOUS
<1>9. m = n
  <2>1. {n, Len(t)} \subseteq Nat /\ n <= Len(t)
    BY <1>5, <1>6, <1>7
  <2>2. m \in {n, Len(t)} /\ m <= n
    BY <1>8, <2>1, MinIs
  <2> QED
    BY <2>1, <2>2
<1>10. PICK x, y : x = SubSeq(t, 1, n) /\ y = SubSeq(r, a + 1, a + n)
  OBVIOUS
<1>11. x \in Seq(S) /\ Len(x) = n /\ \A j \in 1..n : x[j] = t[j]
  <2>1. 0 + n <= Len(t) /\ n = 0 + n /\ 0 + 1 = 1 /\ \A j \in 1..n : 0 + j = j
    BY <1>5, <1>6, <1>7
  <2>2. Piece(S, t, 0, n, SubSeq(t, 0 + 1, n))
    BY <1>7, <2>1, Cut
  <2> QED
    BY <1>10, <2>1, <2>2 DEF Piece
<1>12. y \in Seq(Symbols) /\ Len(y) = n /\ \A j \in 1..n : y[j] = r[a + j]
  <2>1. PICK m2 \in Nat : m2 = a + n
    BY <1>5
  <2>2. a + n <= Len(r) /\ y = SubSeq(r, a + 1, m2)
    BY <1>1, <1>5, <1>10, <2>1
  <2>3. Piece(Symbols, r, a, n, SubSeq(r, a + 1, m2))
    BY <1>5, <2>1, <2>2, Cut
  <2> QED
    BY <2>2, <2>3 DEF Piece
<1>13. y \in Seq(S)
  BY <1>12 DEF S
<1>14. ASSUME NEW j \in 1..n PROVE x[j] = y[j]
  <2>1. j \in 1..rest /\ a + j \in a + 1 .. len
    BY <1>5, <1>6
  <2> QED
    BY <1>5, <1>7, <1>11, <1>12, <2>1
<1>15. x = y
  BY <1>11, <1>12, <1>13, <1>14, SameCut
<1> QED
  BY <1>3, <1>8, <1>9, <1>10, <1>15

LEMMA ContentTurn ==
    ASSUME ConnAssumption, NEW r, Turn(r), conn.state = "CONTENT", parse_content(conn), odd' = {}
    PROVE  InHand(r)'
<1>1. /\ conn' = Consumed(conn) /\ BodyThere(conn) /\ pc' = "do_request" /\ sock' = sock
      /\ m_string' = SubSeq(Text(conn), 1, Min({conn.clen, Len(Text(conn))}))
  BY DEF parse_content, ByParser
<1>2. PICK c, k : c = conn /\ k = conn.start - 2
  OBVIOUS
<1>3. /\ c \in ConnType /\ Fits(c) /\ r \in Seq(Symbols) /\ sock \in Seq(Symbols)
      /\ Legible(r) /\ InBuffer(r, c, sock) /\ c.state = "CONTENT"
      /\ c.cgi = (r[1] = "post") /\ c.linger = Has(r, "keep") /\ Has(r, "len")
      /\ c.clen = BodyLen /\ c.checked = c.start /\ c.start > 2
      /\ HeaderEndsAt(r, k) /\ NoEndBefore(r, k)
  BY <1>2 DEF Turn, Reading
<1>4. /\ c.start \in Nat /\ BodyLen \in Nat /\ Len(c.buf) \in Nat /\ c.buf \in Texts
      /\ Len(r) \in Nat
  BY <1>3, Sizes, LenProperties DEF ConnType, Texts
<1>5. Len(c.buf) >= BodyLen + c.start
  BY <1>1, <1>2, <1>3 DEF BodyThere
<1>6. conn' = [c EXCEPT !.start = c.checked]
  BY <1>1, <1>2 DEF Consumed
<1>7. conn'.cgi = c.cgi /\ conn'.linger = c.linger /\ conn'.state = "CONTENT"
  BY <1>3, <1>6 DEF ConnType
<1>8. m_string' = Body(r)
  <2>1. SubSeq(Text(c), 1, Min({BodyLen, Len(Text(c))})) = SubSeq(r, c.start + 1, c.start + BodyLen)
    BY <1>3, <1>4, <1>5, ContentText
  <2>2. k \in Nat /\ k + 3 = c.start + 1 /\ k + 2 + BodyLen = c.start + BodyLen
    <3>1. PICK start \in Nat : start = c.start
      BY <1>4
    <3>2. k = start - 2 /\ start > 2
      BY <1>2, <1>3, <3>1
    <3>3. k \in Nat /\ k + 3 = start + 1
      BY <3>2
    <3>4. PICK len \in Nat : len = BodyLen
      BY <1>4
    <3>5. k + 2 + len = start + len
      BY <3>2, <3>3, <3>4
    <3> QED
      BY <3>1, <3>3, <3>4, <3>5
  <2> QED
    <3>1. Body(r) = SubSeq(r, k + 3, k + 2 + BodyLen)
      BY <1>3, <2>2, BodyIs
    <3>2. m_string' = SubSeq(Text(c), 1, Min({BodyLen, Len(Text(c))}))
      BY <1>1, <1>2, <1>3
    <3> QED
      BY <2>1, <2>2, <3>1, <3>2
<1>9. c.linger => sock = << >>
  <2>1. SUFFICES ASSUME c.linger PROVE Len(r) <= Len(c.buf)
    BY <1>3, <1>4, NothingLeft
  <2>2. k \in 1..Len(r) /\ HeaderEndsAt(r, k) /\ Has(r, "keep")
    BY <1>3, <2>1 DEF HeaderEndsAt
  <2>3. Len(r) <= k + 2 + BodyLen
    BY <1>3, <2>2 DEF Legible
  <2> QED
    BY <1>2, <1>4, <1>5, <2>3, SMTT(30)
<1> QED
  BY <1>1, <1>3, <1>7, <1>8, <1>9 DEF InHand, Replying, Meant

LEMMA NoRequestTurn ==
    ASSUME NEW r, Turn(r), NoRequest
    PROVE  InHand(r)'
<1>1. /\ pc' = "armed" /\ ~LineOk(conn) /\ conn.state # "CONTENT" /\ conn' = Unended(conn)
      /\ sock' = sock
  BY DEF NoRequest, Turn, ByParser
<1>2. PICK c : c = conn
  OBVIOUS
<1>3. /\ c \in ConnType /\ Fits(c) /\ r \in Seq(Symbols) /\ Reading(r, c, sock) /\ sock \in Seq(Symbols)
  BY <1>2 DEF Turn
<1>4. PICK at : at = IF Found(c) = {} THEN Len(c.buf) ELSE Min(Found(c)) - 1
  OBVIOUS
<1>5. /\ c.checked \in Nat /\ c.start \in Nat /\ Len(c.buf) \in Nat /\ c.start <= c.checked
      /\ c.checked <= Len(c.buf)
  BY <1>3, LenProperties DEF ConnType, Texts, Fits
<1>6. /\ at \in Nat /\ at <= Len(c.buf)
      /\ \A i \in c.checked + 1 .. at : i \notin Found(c)
  <2>1. CASE Found(c) = {}
    BY <1>4, <1>5, <2>1
  <2>2. CASE Found(c) # {}
    <3>1. PICK i : i = Min(Found(c))
      OBVIOUS
    <3>2. i \in Nat /\ c.checked < i /\ i <= Len(c.buf) /\ \A j \in Found(c) : i <= j
      BY <1>3, <2>2, <3>1, FoundIs, MinIs
    <3> QED
      BY <1>4, <1>5, <2>2, <3>1, <3>2
  <2> QED
    BY <2>1, <2>2
<1>7. conn' = [c EXCEPT !.checked = at]
  BY <1>1, <1>2, <1>4 DEF Unended
<1>8. /\ conn'.buf = c.buf /\ conn'.start = c.start /\ conn'.checked = at
      /\ conn'.state = c.state /\ conn'.linger = c.linger /\ conn'.clen = c.clen
      /\ conn'.cgi = c.cgi /\ c.state # "CONTENT"
  BY <1>1, <1>2, <1>3, <1>6, <1>7 DEF ConnType
<1>9. InBuffer(r, conn', sock)
  <2>1. InBuffer(r, c, sock)
    BY <1>3 DEF Reading
  <2>2. ASSUME NEW i \in c.start + 1 .. at PROVE r[i] \notin {"CR", "LF"}
    <3>1. CASE i <= c.checked
      BY <1>5, <1>6, <2>1, <3>1 DEF InBuffer
    <3>2. CASE i > c.checked
      <4>1. i \in c.checked + 1 .. at /\ i \in c.checked + 1 .. Len(c.buf)
        BY <1>5, <1>6, <3>2
      <4>2. c.buf[i] \notin {"CR", "LF"}
        BY <1>6, <4>1 DEF Found
      <4>3. c.buf[i] = r[i]
        BY <1>5, <1>6, <2>1 DEF InBuffer
      <4> QED
        BY <4>2, <4>3
    <3> QED
      BY <1>5, <1>6, <3>1, <3>2
  <2> QED
    BY <1>8, <2>1, <2>2 DEF InBuffer
<1>10. Reading(r, conn', sock)
  BY <1>3, <1>8, <1>9 DEF Reading, Known
<1> QED
  BY <1>1, <1>8, <1>10 DEF InHand, Replying

(* A turn of the loop that leaves nothing odd behind.                      *)
LEMMA ReadTurn ==
    ASSUME ConnAssumption, NEW r, Turn(r), process_read, odd' = {}
    PROVE  InHand(r)' /\ pc' # "open"
<1>1. CASE parse_request_line
  BY <1>1, RequestLineTurn DEF parse_request_line
<1>2. CASE parse_headers
  BY <1>2, HeadersTurn DEF parse_headers
<1>3. CASE HeaderEnd
  BY <1>3, HeaderEndTurn DEF HeaderEnd
<1>4. CASE Content
  <2>1. conn.state = "CONTENT" /\ parse_content(conn)
    BY <1>4 DEF Content, Turn
  <2>2. pc' # "open"
    BY <2>1 DEF parse_content
  <2> QED
    BY <2>1, <2>2, ContentTurn
<1>5. CASE NoRequest
  BY <1>5, NoRequestTurn DEF NoRequest
<1> QED
  BY <1>1, <1>2, <1>3, <1>4, <1>5 DEF process_read

-----------------------------------------------------------------------------
(* Every step leaves the slot with what its client means.                  *)
AllLegible == \A r \in Requests : Legible(r)

Clear == /\ pc # "open" /\ Len(asked) <= 1
         /\ asked = << >> => pc \in {"armed", "closed"} /\ sock = << >>
         /\ asked = << >> /\ pc = "armed" => conn = Cleared
         /\ asked # << >> => InHand(asked[1])

LEMMA EmptyCleared ==
    /\ Cleared.buf = << >> /\ Cleared.start = 0 /\ Cleared.checked = 0
    /\ Cleared.state = "REQUESTLINE" /\ ~Cleared.linger /\ Cleared.clen = 0 /\ ~Cleared.cgi
    /\ Len(<< >>) = 0
BY EmptySeq DEF Cleared

LEMMA FirstSent ==
    ASSUME Types, Clear, asked = << >>, pc # "closed",
           NEW r \in Requests, r \in Seq(Symbols), Send(r)
    PROVE  Clear'
<1>1. /\ pc = "armed" /\ sock = << >> /\ conn = Cleared
  BY DEF Clear
<1>2. /\ asked' = Append(asked, r) /\ sock' = sock \o r /\ pc' = pc /\ conn' = conn
  BY DEF Send
<1>3. sock' = r
  BY <1>1, <1>2, ConcatEmptySeq
<1>4. asked' # << >> /\ Len(asked') = 1 /\ asked'[1] = r
  BY <1>2, EmptySeq, AppendProperties DEF Types
<1>5. Len(r) \in Nat
  BY LenProperties
<1>6. Reading(r, Cleared, r)
  <2>1. InBuffer(r, Cleared, r)
    BY <1>5, EmptyCleared DEF InBuffer
  <2> QED
    BY <2>1, EmptyCleared DEF Reading
<1>7. InHand(r)'
  BY <1>1, <1>2, <1>3, <1>6, EmptyCleared DEF InHand, Replying
<1> QED
  BY <1>1, <1>2, <1>4, <1>7 DEF Clear

(* What arrives goes on where the buffer ended.                            *)
Arrived(c, s, n, d, t) ==
    /\ d.buf = c.buf \o SubSeq(s, 1, n) /\ d.start = c.start /\ d.checked = c.checked
    /\ t = SubSeq(s, n + 1, Len(s))

LEMMA MoreArrives ==
    ASSUME NEW c \in ConnType, Fits(c), NEW r \in Seq(Symbols), NEW s \in Seq(Symbols),
           InBuffer(r, c, s), NEW n \in Nat, n <= Len(s),
           NEW d, NEW t, Arrived(c, s, n, d, t)
    PROVE  InBuffer(r, d, t)
<1>1. /\ c.buf \in Texts /\ c.start \in Nat /\ c.checked \in Nat /\ Len(c.buf) \in Nat
      /\ c.start <= c.checked /\ c.checked <= Len(c.buf) /\ Len(s) \in Nat /\ Len(r) \in Nat
  BY LenProperties DEF ConnType, Texts, Fits
<1>2. PICK k \in Nat, m \in Nat, start \in Nat, e \in Texts :
         e = c.buf /\ k = Len(c.buf) /\ Len(s) = n + m /\ start = c.start /\ start <= k
  <2>1. PICK m \in Nat : m = Len(s) - n
    BY <1>1
  <2>2. Len(s) = n + m /\ c.start <= Len(c.buf)
    BY <1>1, <2>1
  <2> QED
    BY <1>1, <2>2
<1>3. PICK x : x = SubSeq(s, 1, n)
  OBVIOUS
<1>4. x \in Seq(Symbols) /\ Len(x) = n /\ \A j \in 1..n : x[j] = s[j]
  <2>1. 0 \in Nat /\ 0 + n <= Len(s) /\ n = 0 + n /\ 0 + 1 = 1 /\ \A j \in 1..n : 0 + j = j
    BY <1>1
  <2>2. Piece(Symbols, s, 0, n, SubSeq(s, 0 + 1, n))
    BY <2>1, Cut
  <2> QED
    BY <1>3, <2>1, <2>2 DEF Piece
<1>5. t \in Seq(Symbols) /\ Len(t) = m /\ \A j \in 1..m : t[j] = s[n + j]
  <2>1. n + m <= Len(s) /\ Len(s) = n + m /\ Len(s) \in Nat
    BY <1>2
  <2>2. t = SubSeq(s, n + 1, Len(s))
    BY DEF Arrived
  <2>3. Piece(Symbols, s, n, m, SubSeq(s, n + 1, Len(s)))
    BY <2>1, Cut
  <2> QED
    BY <2>2, <2>3 DEF Piece
<1>6. e \in Texts /\ x \in Texts
  <2>1. x \in Seq(Symbols \cup {"NUL"})
    <3>1. \A j \in 1..n : x[j] \in Symbols \cup {"NUL"}
      BY <1>4, ElementOfSeq
    <3> QED
      BY <1>4
  <2> QED
    BY <1>1, <1>2, <2>1 DEF Texts
<1>7. PICK b : b = e \o x
  OBVIOUS
<1>8. /\ Len(b) = k + n /\ \A i \in 1..k : b[i] = e[i]
      /\ \A i \in k + 1 .. k + n : b[i] = x[i - k]
  <2>1. Joined(Symbols \cup {"NUL"}, e, x, k, n, b)
    BY <1>2, <1>4, <1>6, <1>7, ConcatParts DEF Texts
  <2> QED
    BY <2>1 DEF Joined
<1>9. /\ k + Len(s) = Len(r) /\ \A i \in 1..Len(s) : s[i] = r[k + i]
      /\ \A i \in start + 1 .. k : e[i] = r[i]
      /\ start > 0 => e[start] = "NUL"
      /\ \A i \in start + 1 .. c.checked : r[i] \notin {"CR", "LF"}
  BY <1>2 DEF InBuffer
<1>10. Len(b) + Len(t) = Len(r) /\ Len(b) = k + n /\ Len(t) = m /\ Len(s) = n + m
  <2>1. Len(b) = k + n /\ Len(t) = m /\ Len(s) = n + m /\ k + Len(s) = Len(r)
    BY <1>2, <1>5, <1>8, <1>9
  <2> QED
    BY <2>1
<1>11. ASSUME NEW i \in 1..Len(t) PROVE t[i] = r[Len(b) + i]
  <2>1. i \in 1..m /\ n + i \in 1..Len(s) /\ k + (n + i) = Len(b) + i
    BY <1>10
  <2> QED
    BY <1>5, <1>9, <2>1
<1>12. ASSUME NEW i \in start + 1 .. Len(b) PROVE b[i] = r[i]
  <2>0. i \in Nat /\ i > 0 /\ start < i /\ i <= k + n
    BY <1>10
  <2>1. CASE i <= k
    <3>1. i \in 1..k /\ i \in start + 1 .. k
      BY <2>0, <2>1
    <3> QED
      BY <1>8, <1>9, <3>1
  <2>2. CASE i > k
    <3>1. i \in k + 1 .. k + n /\ i - k \in 1..n /\ i - k \in 1..Len(s) /\ k + (i - k) = i
      BY <1>10, <2>0, <2>2
    <3> QED
      BY <1>4, <1>8, <1>9, <3>1, ZenonT(30)
  <2> QED
    BY <2>0, <2>1, <2>2
<1>13. start > 0 => b[start] = "NUL"
  <2>1. start > 0 => start \in 1..k
    BY <1>2
  <2> QED
    BY <1>8, <1>9, <2>1
<1>14. d.buf = b /\ d.start = start /\ d.checked = c.checked
  BY <1>2, <1>3, <1>7 DEF Arrived
<1> QED
  BY <1>9, <1>10, <1>11, <1>12, <1>13, <1>14 DEF InBuffer

LEMMA ReadsTurn ==
    ASSUME ConnOK, Types, Clear, NEW n \in 1..BufSize, Reads(n),
           asked # << >> => asked[1] \in Seq(Symbols)
    PROVE  Clear'
<1>1. /\ pc = "armed" /\ n <= Len(sock) /\ pc' = "lines" /\ asked' = asked
      /\ conn' = [conn EXCEPT !.buf = @ \o SubSeq(sock, 1, n)]
      /\ sock' = SubSeq(sock, n + 1, Len(sock))
  BY DEF Reads
<1>2. n \in Nat /\ n > 0
  BY DEF Types
<1>3. asked # << >>
  BY <1>1, <1>2, EmptySeq DEF Clear
<1>4. PICK c, d, r : c = conn /\ d = conn' /\ r = asked[1]
  OBVIOUS
<1>5. /\ c \in ConnType /\ Fits(c) /\ r \in Seq(Symbols) /\ sock \in Seq(Symbols)
      /\ Reading(r, c, sock) /\ c.state # "CONTENT"
  BY <1>1, <1>3, <1>4 DEF ConnOK, Types, Clear, InHand
<1>6. /\ d.buf = c.buf \o SubSeq(sock, 1, n) /\ d.start = c.start /\ d.checked = c.checked
      /\ d.state = c.state /\ d.linger = c.linger /\ d.clen = c.clen /\ d.cgi = c.cgi
  BY <1>1, <1>4, <1>5 DEF ConnType
<1>7. InBuffer(r, d, sock')
  <2>1. Arrived(c, sock, n, d, sock')
    BY <1>1, <1>6 DEF Arrived
  <2>2. InBuffer(r, c, sock)
    BY <1>5 DEF Reading
  <2> QED
    BY <1>1, <1>2, <1>5, <2>1, <2>2, MoreArrives
<1>8. Reading(r, d, sock')
  BY <1>5, <1>6, <1>7 DEF Reading, Known
<1>9. InHand(r)'
  BY <1>1, <1>4, <1>8 DEF InHand, Replying
<1> QED
  BY <1>1, <1>3, <1>4, <1>9 DEF Clear

LEMMA AnsweredTurn ==
    ASSUME ConnAssumption, Types, Clear, WritevLast
    PROVE  Clear' /\ (pc' = "closed" => sock' = << >> /\ asked' = << >>)
<1>1. pc = "sending" /\ asked # << >> /\ Len(asked) <= 1 /\ asked \in Seq(Requests)
  BY DEF WritevLast, Clear, Types
<1>2. CASE conn.linger
  <2>1. /\ pc' = "armed" /\ conn' = Cleared /\ sock' = sock
        /\ asked' = SubSeq(asked, 2, Len(asked))
    BY <1>2 DEF WritevLast, init
  <2>2. sock = << >>
    BY <1>1, <1>2 DEF Clear, InHand
  <2>3. Len(asked) \in Int /\ Len(asked) < 2
    BY <1>1, LenProperties
  <2>4. asked' = << >> /\ Len(asked') = 0
    BY <2>1, <2>3, SubSeqEmpty, EmptySeq
  <2> QED
    BY <2>1, <2>2, <2>4 DEF Clear
<1>3. CASE ~conn.linger
  <2>1. Closed
    BY <1>3 DEF WritevLast
  <2> QED
    BY <2>1, EmptyCleared DEF Closed, Clear
<1> QED
  BY <1>2, <1>3

LEMMA UnderstoodStep ==
    ASSUME ConnAssumption, AllLegible, ConnOK, Types, Understood, [Next]_vars
    PROVE  Understood'
<1> DEFINE Gone == pc = "closed" => sock = << >> /\ asked = << >>
<1>0. Gone /\ (odd = {} => Clear)
  BY DEF Understood, Clear
<1>1. SUFFICES Gone' /\ (odd' = {} => Clear')
  BY DEF Understood, Clear
<1>2. ASSUME Closed PROVE Gone' /\ (odd' = {} => Clear')
  BY <1>2, EmptyCleared DEF Closed, Clear
<1>3. ASSUME asked # << >> PROVE asked[1] \in Seq(Symbols) /\ Legible(asked[1])
  <2>1. asked \in Seq(Requests) /\ 1 \in 1..Len(asked)
    BY <1>3, EmptySeq DEF Types
  <2>2. asked[1] \in Requests
    BY <2>1, ElementOfSeq
  <2> QED
    BY <2>2 DEF ConnAssumption, AllLegible
<1>4. CASE UNCHANGED vars
  BY <1>0, <1>4 DEF Clear, InHand
<1>5. CASE \E r \in Requests : Send(r)
  <2>1. PICK r \in Requests : Send(r)
    BY <1>5
  <2>2. pc # "closed" /\ pc' = pc
    BY <2>1 DEF Send
  <2>3. odd' = {} => asked = << >> /\ odd = {}
    BY <2>1 DEF Send
  <2>4. r \in Seq(Symbols)
    BY DEF ConnAssumption
  <2> QED
    BY <1>0, <2>1, <2>2, <2>3, <2>4, FirstSent
<1>6. CASE HangUp
  BY <1>2, <1>6 DEF HangUp
<1>7. CASE Accept
  <2>1. sock' = << >> /\ asked' = << >> /\ pc' = "armed" /\ conn' = Cleared
    BY <1>0, <1>7 DEF Accept, init
  <2> QED
    BY <2>1, EmptyCleared DEF Clear
<1>8. CASE WriteFails
  BY <1>2, <1>8 DEF WriteFails
<1>9. CASE BufferFull
  BY <1>2, <1>9 DEF BufferFull
<1>10. CASE \E n \in 1..BufSize : Reads(n)
  <2>1. PICK n \in 1..BufSize : Reads(n)
    BY <1>10
  <2>2. pc' = "lines" /\ odd' = odd
    BY <2>1 DEF Reads
  <2> QED
    BY <1>0, <1>3, <2>1, <2>2, ReadsTurn
<1>11. CASE process_read
  <2>1. /\ asked' = asked /\ pc' # "closed" /\ pc \in {"lines", "open"}
        /\ odd' = {} => odd = {}
    BY <1>11 DEF process_read, parse_request_line, parse_headers, HeaderEnd, Content, NoRequest,
       parse_content, TakesLine, ByParser
  <2>2. SUFFICES ASSUME odd' = {} PROVE Clear'
    BY <2>1
  <2>3. Clear /\ pc = "lines" /\ asked # << >>
    BY <1>0, <2>1, <2>2 DEF Clear
  <2>4. Turn(asked[1])
    BY <1>3, <2>3 DEF ConnOK, Types, Clear, InHand, Turn
  <2>5. PICK r : r = asked[1]
    OBVIOUS
  <2>6. Turn(r)
    BY <2>4, <2>5
  <2>7. InHand(r)' /\ pc' # "open"
    BY <1>11, <2>2, <2>6, ReadTurn
  <2> QED
    BY <2>1, <2>3, <2>5, <2>7 DEF Clear
<1>12. CASE do_request
  <2>1. /\ pc = "do_request" /\ pc' \in Replying
        /\ conn' = conn /\ sock' = sock /\ asked' = asked /\ odd' = odd
    BY <1>12 DEF do_request, NotSent, Replying
  <2>2. ASSUME Clear PROVE Clear'
    <3>1. asked # << >> /\ InHand(asked[1])
      BY <2>1, <2>2 DEF Clear
    <3>2. conn.state # "REQUESTLINE" /\ (conn.linger => sock = << >>)
      BY <2>1, <3>1 DEF InHand
    <3>3. PICK r : r = asked[1]
      OBVIOUS
    <3>4. InHand(r)'
      BY <2>1, <3>2 DEF InHand, Replying
    <3> QED
      BY <2>1, <2>2, <3>1, <3>3, <3>4 DEF Clear, Replying
  <2> QED
    BY <1>0, <2>1, <2>2 DEF Replying
<1>13. CASE process_write
  <2>1. /\ pc \in Replying /\ pc' = "sending"
        /\ conn' = conn /\ sock' = sock /\ asked' = asked /\ odd' = odd
    BY <1>13 DEF process_write, Replying
  <2>2. ASSUME Clear PROVE Clear'
    BY <2>1, <2>2 DEF Clear, InHand, Replying
  <2> QED
    BY <1>0, <2>1, <2>2
<1>14. CASE NoAnswer
  BY <1>2, <1>14 DEF NoAnswer
<1>15. CASE WritevLast
  <2>1. odd' = odd /\ pc = "sending"
    BY <1>15 DEF WritevLast
  <2>2. CASE odd = {}
    BY <1>0, <1>15, <2>1, <2>2, AnsweredTurn
  <2>3. CASE odd # {}
    BY <1>15, <2>1, <2>3 DEF WritevLast, Closed
  <2> QED
    BY <2>2, <2>3
<1>16. CASE \E n \in 1 .. HeaderLen + FileLen : Writev(n)
  <2>1. /\ pc' = pc /\ conn' = conn /\ sock' = sock /\ asked' = asked /\ odd' = odd
        /\ m_string' = m_string
    BY <1>16 DEF Writev
  <2> QED
    BY <1>0, <2>1 DEF Clear, InHand
<1> QED
  BY <1>4, <1>5, <1>6, <1>7, <1>8, <1>9, <1>10, <1>11, <1>12, <1>13, <1>14, <1>15, <1>16
     DEF Next, Serve, write

(* A request is understood as its client meant it, wherever recv cut it    *)
(* into pieces, and only one that cannot be is rejected (process_read and  *)
(* what it calls, init, write): for all requests of which that can be said.*)
THEOREM UnderstoodAsSent ==
    ASSUME AllLegible
    PROVE  Spec => []ParsedAsSent
<1>1. Init => Understood
  BY EmptyCleared DEF Init, Understood
<1>2. HInv /\ Understood /\ [Next]_vars => Understood'
  BY ConnAssumption, UnderstoodStep DEF HInv
<1>3. Understood /\ HInv => ParsedAsSent
  <2> SUFFICES ASSUME Understood, Types, odd = {}, asked # << >>
               PROVE  LET r == Head(asked) IN
                      /\ pc = "do_request" =>
                           /\ conn.cgi = (r[1] = "post")
                           /\ conn.linger = Has(r, "keep")
                           /\ Has(r, "len") => m_string = Body(r)
                      /\ pc = "BAD_REQUEST" => conn.state # "REQUESTLINE" \/ r[1] = "junk"
    BY DEF ParsedAsSent, HInv
  <2>1. PICK r : r = asked[1]
    OBVIOUS
  <2>2. Head(asked) = r
    BY <2>1 DEF Types
  <2>3. InHand(r)
    BY <2>1 DEF Understood
  <2> QED
    BY <2>2, <2>3 DEF InHand, Meant, Replying
<1> QED
  BY <1>1, <1>2, <1>3, HInvAlways, PTL DEF Spec
=============================================================================
