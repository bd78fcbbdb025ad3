------------------------------ MODULE HttpConn ------------------------------
(***************************************************************************)
(* HttpConn/http_conn.cpp: what one connection slot does between the       *)
(* event loop's calls - read_once, process (process_read, do_request,      *)
(* process_write) and write - for one client after the other.              *)
(*                                                                         *)
(* A symbol stands for the text of a line, a CR, a LF or a part of a body; *)
(* the indices of the read buffer count symbols, from 0 as in the code.    *)
(* A client's bytes arrive in pieces of any size, writev sends any number  *)
(* of bytes.  Who calls when is WebServer's business: here a handler runs  *)
(* whenever the descriptor is armed for it.                                *)
(***************************************************************************)
EXTENDS Integers, Sequences, FiniteSetsExt

CONSTANTS
    Requests,    \* the requests clients send, as sequences of symbols
    BodyLen,     \* what the line "len" (Content-length) announces
    BufSize,     \* READ_BUFFER_SIZE
    HeaderLen,   \* m_write_idx when the response is complete in m_write_buf
    FileLen,     \* st_size of a file that is not empty
    MaxRequests, \* bound: requests of all clients
    MaxClients   \* bound: clients the slot serves one after the other

Words == {"get", "post", "junk", "keep", "len", "host"}
Symbols == Words \cup {"CR", "LF", "user", "and", "passwd"}

ASSUME ConnAssumption ==
    /\ Requests \subseteq Seq(Symbols) /\ << >> \notin Requests
    /\ {BodyLen, BufSize, HeaderLen, FileLen, MaxRequests, MaxClients} \subseteq Nat \ {0}

VARIABLES
    m_TRIGMode,     \* 1: edge-triggered, 0: level-triggered
    pc,             \* what the slot waits for, or where its handler is
    conn,           \* the members init() clears, for reading
    resp,           \* bytes_to_send, bytes_have_send and m_iv, for writing
    m_string,       \* the body do_request uses
    m_file_address, \* "null", "map", "failed" (MAP_FAILED), or "stale": the
                    \* mapping of an earlier client, m_file_stat is another's
    sock,           \* what the client has sent and recv not yet returned
    asked,          \* the client's requests that are not answered
    out,            \* what was sent of the answer
    maps,           \* files mapped at the moment
    count,          \* requests, clients, and answers cut off so far
    odd             \* history: what happened to this client, see Excused

server == <<m_TRIGMode, pc, conn, resp, m_string, m_file_address, maps>>
client == <<sock, asked, out, count, odd>>
vars == <<server, client>>

(* init(): what a fresh request finds.  The m_iv, m_string and             *)
(* m_file_address keep what they were.                                     *)
Cleared == [buf |-> << >>, checked |-> 0, start |-> 0, state |-> "REQUESTLINE",
            linger |-> FALSE, clen |-> 0, cgi |-> FALSE]

(* Mutant: m_linger is not reset.                                          *)
initKeepsLinger == conn' = [Cleared EXCEPT !.linger = conn.linger]

init == conn' = Cleared

NoResponse == [have |-> 0, toSend |-> 0, off0 |-> 0, len0 |-> 0,
               off1 |-> 0, len1 |-> 0, iovs |-> 1, inHeader |-> 0]

Init ==
    /\ m_TRIGMode \in {0, 1}
    /\ pc = "armed" /\ conn = Cleared /\ resp = NoResponse
    /\ m_string = << >> /\ m_file_address = "null" /\ maps = 0
    /\ sock = << >> /\ asked = << >> /\ out = << >>
    /\ count = [requests |-> 0, clients |-> 1, cutOff |-> 0]
    /\ odd = {}

-----------------------------------------------------------------------------
(* The client, and the event loop that gives the slot to the next one.     *)

(* A client may send before it has the answer to its last request.         *)
Send(r) ==
    /\ pc # "closed" /\ count.requests < MaxRequests
    /\ sock' = sock \o r /\ asked' = Append(asked, r)
    /\ count' = [count EXCEPT !.requests = @ + 1]
    /\ odd' = IF asked = << >> THEN odd ELSE odd \cup {"pipelined"}
    /\ UNCHANGED <<server, out>>

Closed == pc' = "closed" /\ sock' = << >> /\ asked' = << >>

(* The slot sends a file that is mapped.                                   *)
SendsMap == pc = "sending" /\ resp.iovs = 2 /\ m_file_address = "map"

(* The peer hung up or the timer expired: deal_timer closes the connection *)
(* and leaves the slot as it is.                                           *)
HangUp ==
    /\ pc \in {"armed", "sending"} /\ Closed
    /\ count' = [count EXCEPT !.cutOff = @ + (IF SendsMap THEN 1 ELSE 0)]
    /\ UNCHANGED <<m_TRIGMode, conn, resp, m_string, m_file_address, maps, out, odd>>

(* init(sockfd, ...) for the next client of the slot.                      *)
Accept ==
    /\ pc = "closed" /\ count.clients < MaxClients
    /\ pc' = "armed" /\ init
    /\ resp' = [resp EXCEPT !.have = 0, !.toSend = 0]
    /\ out' = << >> /\ odd' = {}
    /\ count' = [count EXCEPT !.clients = @ + 1]
    /\ UNCHANGED <<m_TRIGMode, m_string, m_file_address, maps, sock, asked>>

-----------------------------------------------------------------------------
(* read_once.  Edge-triggered it reads until recv has no more, and a recv  *)
(* into a buffer that is full returns 0 as if the peer had closed.         *)
Reads(n) ==
    /\ pc = "armed" /\ n <= Len(sock) /\ Len(conn.buf) + n <= BufSize
    /\ m_TRIGMode = 1 => Len(conn.buf) + n < BufSize
    /\ conn' = [conn EXCEPT !.buf = @ \o SubSeq(sock, 1, n)]
    /\ sock' = SubSeq(sock, n + 1, Len(sock))
    /\ pc' = "lines"
    /\ UNCHANGED <<m_TRIGMode, resp, m_string, m_file_address, maps, asked, out, count, odd>>

BufferFull ==
    /\ pc = "armed" /\ sock # << >>
    /\ \/ Len(conn.buf) = BufSize
       \/ m_TRIGMode = 1 /\ Len(conn.buf) + Len(sock) >= BufSize
    /\ Closed
    /\ UNCHANGED <<m_TRIGMode, conn, resp, m_string, m_file_address, maps, out, count, odd>>

-----------------------------------------------------------------------------
(* process_read: one action per turn of its loop.                          *)
ByParser == UNCHANGED <<m_TRIGMode, resp, maps, m_file_address, sock, asked, out, count>>

(* parse_line looks for a CR or LF from m_checked_idx on.                  *)
Found(c) == {i \in c.checked + 1 .. Len(c.buf) : c.buf[i] \in {"CR", "LF"}}

(* The CR of a complete line; the search may have begun behind it.         *)
LineEnd(c) ==
    IF Found(c) = {} THEN {}
    ELSE LET i == Min(Found(c)) IN
         {cr \in {i} \cup (IF i > 2 THEN {i - 1} ELSE {}) :
            cr < Len(c.buf) /\ c.buf[cr] = "CR" /\ c.buf[cr + 1] = "LF"}

LineOk(c) == LineEnd(c) # {}

(* LINE_OK: CR and LF become '\0', and the search goes on behind them.     *)
Ended(c) ==
    LET cr == CHOOSE i \in LineEnd(c) : TRUE IN
    [c EXCEPT !.buf = [@ EXCEPT ![cr] = "NUL", ![cr + 1] = "NUL"],
              !.checked = cr + 1]

(* LINE_OPEN; LINE_BAD (a CR or LF alone) stops at the same place.         *)
Unended(c) ==
    [c EXCEPT !.checked = IF Found(c) = {} THEN Len(c.buf) ELSE Min(Found(c)) - 1]

(* get_line(): from m_start_line to the '\0'.                              *)
Text(c) ==
    LET nuls == {i \in c.start + 1 .. Len(c.buf) : c.buf[i] = "NUL"}
    IN SubSeq(c.buf, c.start + 1, (IF nuls = {} THEN Len(c.buf) + 1 ELSE Min(nuls)) - 1)

(* m_start_line = m_checked_idx.                                           *)
Consumed(c) == [c EXCEPT !.start = c.checked]

Line == Text(Ended(conn))
TakesLine(state) == pc = "lines" /\ conn.state = state /\ LineOk(conn)
NextLine == Consumed(Ended(conn))

parse_request_line ==
    /\ TakesLine("REQUESTLINE")
    /\ IF Line \in {<<"get">>, <<"post">>}
       THEN /\ pc' = "lines"
            /\ conn' = [NextLine EXCEPT !.state = "HEADER", !.cgi = Line = <<"post">>]
       ELSE pc' = "BAD_REQUEST" /\ conn' = NextLine
    /\ UNCHANGED <<m_string, odd>> /\ ByParser

parse_headers ==
    /\ TakesLine("HEADER") /\ Line # << >>
    /\ pc' = "lines"
    /\ conn' = CASE Line = <<"keep">> -> [NextLine EXCEPT !.linger = TRUE]
                 [] Line = <<"len">> -> [NextLine EXCEPT !.clen = BodyLen]
                 [] OTHER -> NextLine
    /\ UNCHANGED <<m_string, odd>> /\ ByParser

(* An empty line ends the header.                                          *)
HeaderEnd ==
    /\ TakesLine("HEADER") /\ Line = << >>
    /\ IF conn.clen # 0
       THEN pc' = "lines" /\ conn' = [NextLine EXCEPT !.state = "CONTENT"]
       ELSE pc' = "do_request" /\ conn' = NextLine
    /\ UNCHANGED <<m_string, odd>> /\ ByParser

(* parse_content's test: m_checked_idx is taken for where the body starts. *)
BodyThere(c) == Len(c.buf) >= c.clen + c.checked

(* The '\0' written behind m_content_length bytes of text ends m_string;   *)
(* the buffer is not read again after that.  In a full buffer it is the    *)
(* first byte of m_read_idx, which is 0 already (http_conn.hpp:35, 216).   *)
parse_content(c) ==
    /\ conn' = Consumed(c)
    /\ IF BodyThere(c)
       THEN /\ pc' = "do_request"
            /\ m_string' = SubSeq(Text(c), 1, Min({c.clen, Len(Text(c))}))
            /\ UNCHANGED odd
       ELSE pc' = "open" /\ odd' = odd \cup {"split"} /\ UNCHANGED m_string
    /\ ByParser

(* With line_status LINE_OK the loop does not call parse_line for a body;  *)
(* after an incomplete body line_status is LINE_OPEN and it does.          *)
Content ==
    \/ pc = "lines" /\ conn.state = "CONTENT" /\ parse_content(conn)
    \/ pc = "open" /\ LineOk(conn) /\ parse_content(Ended(conn))

(* Mutant: process returns without modfd.                                  *)
NoRequestNotArmed ==
    /\ pc \in {"lines", "open"} /\ ~LineOk(conn)
    /\ pc = "lines" => conn.state # "CONTENT"
    /\ pc' = "disarmed" /\ conn' = Unended(conn)
    /\ UNCHANGED <<m_string, odd>> /\ ByParser

(* No complete line: NO_REQUEST, and process re-arms the descriptor.       *)
NoRequest ==
    /\ pc \in {"lines", "open"} /\ ~LineOk(conn)
    /\ pc = "lines" => conn.state # "CONTENT"
    /\ pc' = "armed" /\ conn' = Unended(conn)
    /\ UNCHANGED <<m_string, odd>> /\ ByParser

process_read == parse_request_line \/ parse_headers \/ HeaderEnd \/ Content \/ NoRequest

-----------------------------------------------------------------------------
(* A page that stat finds and that is not sent: of a mapping the slot      *)
(* still has, m_file_stat may now have the wrong size.                     *)
NotSent ==
    /\ pc' \in {"FORBIDDEN_REQUEST", "BAD_REQUEST"} /\ UNCHANGED maps
    /\ m_file_address' \in {m_file_address} \cup (IF m_file_address = "map" THEN {"stale"} ELSE {})

(* do_request: what stat says of the page, and the mmap of a file.  The    *)
(* results of open and mmap are not looked at; an empty file cannot be     *)
(* mapped.  Which page it is: see Registration.                            *)
do_request ==
    /\ pc = "do_request"
    /\ \/ pc' = "NO_RESOURCE" /\ UNCHANGED <<m_file_address, maps>>
       \/ NotSent
       \/ pc' = "FILE_REQUEST" /\ m_file_address' = "map" /\ maps' = maps + 1
       \/ pc' \in {"FILE_REQUEST", "EMPTY_FILE"} /\ m_file_address' = "failed" /\ UNCHANGED maps
    /\ UNCHANGED <<m_TRIGMode, conn, resp, m_string, client>>

(* process_write: a page of its own in m_write_buf, or header and file.    *)
(* bytes_have_send is left to init().                                      *)
process_write ==
    /\ pc \in {"BAD_REQUEST", "FORBIDDEN_REQUEST", "FILE_REQUEST"}
    /\ pc' = "sending"
    /\ resp' = [NoResponse EXCEPT
                  !.have = resp.have,
                  !.toSend = HeaderLen + (IF pc = "FILE_REQUEST" THEN FileLen ELSE 0),
                  !.len0 = HeaderLen,
                  !.len1 = FileLen,
                  !.iovs = IF pc = "FILE_REQUEST" THEN 2 ELSE 1]
    /\ out' = << >>
    /\ UNCHANGED <<m_TRIGMode, conn, m_string, m_file_address, maps, sock, asked, count, odd>>

(* It has no case for NO_RESOURCE and falls through to default after an    *)
(* empty file: process closes the connection.                              *)
NoAnswer ==
    /\ pc \in {"NO_RESOURCE", "EMPTY_FILE"} /\ Closed
    /\ UNCHANGED <<m_TRIGMode, conn, resp, m_string, m_file_address, maps, out, count, odd>>

-----------------------------------------------------------------------------
(* write.  EAGAIN only leaves the loop for the next EPOLLOUT.  The return  *)
(* at its beginning, for bytes_to_send = 0, is not reached: the descriptor *)
(* is armed for EPOLLOUT only while something is left to send.             *)

(* Mutant: a mapping is forgotten, not undone.                             *)
unmapForgets == m_file_address' = "null" /\ UNCHANGED maps

(* munmap, with the size of the file stat was last asked for: a mapping of *)
(* another size may stay, in whole or in part.                             *)
unmap == /\ m_file_address' = "null"
         /\ maps' \in CASE m_file_address = "map" -> {maps - 1}
                        [] m_file_address = "stale" -> {maps - 1, maps}
                        [] OTHER -> {maps}

(* The header comes from m_write_buf; the file cannot be read (EFAULT) if  *)
(* mmap failed.                                                            *)
Unreadable == resp.iovs = 2 /\ m_file_address = "failed"
Iov1Len == IF resp.iovs = 2 /\ ~Unreadable THEN resp.len1 ELSE 0

(* The n bytes a writev of m_iv sends: places in m_write_buf and the file. *)
Gathered(n) ==
    [i \in 1..n |-> IF i <= resp.len0 THEN <<"header", resp.off0 + i - 1>>
                    ELSE <<"file", resp.off1 + i - resp.len0 - 1>>]

(* Mutant: m_write_idx is not subtracted.                                  *)
AdvancedFromStart(r) ==
    IF r.have >= r.len0
    THEN [r EXCEPT !.len0 = 0, !.off1 = r.have, !.len1 = r.toSend]
    ELSE [r EXCEPT !.off0 = r.have, !.len0 = @ - r.have]

(* m_iv after a writev, with the counts already updated: iov_len is        *)
(* reduced by everything sent so far, and compared after that.             *)
Advanced(r) ==
    IF r.have >= r.len0
    THEN [r EXCEPT !.len0 = 0, !.off1 = r.have - HeaderLen, !.len1 = r.toSend]
    ELSE [r EXCEPT !.off0 = r.have, !.len0 = @ - r.have]

(* inHeader counts the writes that end within the header, up to two.       *)
Sent(n) ==
    LET have == resp.have + n IN
    [resp EXCEPT !.have = have, !.toSend = @ - n,
                 !.inHeader = IF have < HeaderLen THEN Min({@ + 1, 2}) ELSE @]

Writev(n) ==
    /\ pc = "sending" /\ n <= resp.len0 + Iov1Len /\ n < resp.toSend
    /\ resp' = Advanced(Sent(n)) /\ out' = out \o Gathered(n)
    /\ UNCHANGED <<m_TRIGMode, pc, conn, m_string, m_file_address, maps, sock, asked, count, odd>>

(* The last byte is sent: wait for the next request, or close.  An answer  *)
(* nobody asked for (to what follows a request) takes none off asked.      *)
WritevLast ==
    /\ pc = "sending" /\ resp.toSend <= resp.len0 + Iov1Len
    /\ out' = out \o Gathered(resp.toSend)
    /\ unmap
    /\ IF conn.linger
       THEN /\ pc' = "armed" /\ init /\ asked' = SubSeq(asked, 2, Len(asked))
            /\ UNCHANGED sock
            /\ resp' = [Advanced(Sent(resp.toSend)) EXCEPT !.have = 0]
       ELSE /\ Closed /\ UNCHANGED conn
            /\ resp' = Advanced(Sent(resp.toSend))
    /\ UNCHANGED <<m_TRIGMode, m_string, count, odd>>

WriteFails ==
    /\ pc = "sending" /\ unmap /\ Closed
    /\ UNCHANGED <<m_TRIGMode, conn, resp, m_string, out, count, odd>>

(* What is left is the file, and writev fails.                             *)
write == \/ WritevLast \/ \E n \in 1 .. HeaderLen + FileLen : Writev(n)
         \/ Unreadable /\ WriteFails

-----------------------------------------------------------------------------
Serve == BufferFull \/ (\E n \in 1..BufSize : Reads(n)) \/ process_read
         \/ do_request \/ process_write \/ NoAnswer \/ write

Next == (\E r \in Requests : Send(r)) \/ HangUp \/ Accept \/ WriteFails \/ Serve

Spec == Init /\ [][Next]_vars

(* The event loop and the workers go on; nothing is assumed of the client. *)
FairSpec == Spec /\ WF_vars(Serve)

-----------------------------------------------------------------------------
(* What a client means by a request, whatever the pieces it arrives in.    *)
Has(r, word) == \E i \in 1..Len(r) : r[i] = word

(* CR and LF only occur together.                                          *)
WellFormed(r) ==
    \A i \in 1..Len(r) : /\ r[i] = "CR" => i < Len(r) /\ r[i + 1] = "LF"
                         /\ r[i] = "LF" => i > 1 /\ r[i - 1] = "CR"

(* A header line of r ends here and the empty line follows.                *)
HeaderEndsAt(r, i) == i \in 1 .. Len(r) - 1 /\ r[i] = "LF" /\ r[i + 1] = "CR"

(* What follows the empty line.                                            *)
Body(r) == LET lf == Min({i \in 1..Len(r) : HeaderEndsAt(r, i)})
           IN SubSeq(r, lf + 3, lf + 2 + BodyLen)

(* A request that ParsedAsSent can be asked of: its first word is a line   *)
(* (or the beginning of one), "keep" and "len" are lines of the header and *)
(* nothing else, and on a connection that stays nothing follows the body.  *)
Legible(r) ==
    /\ r[1] \in {"get", "post", "junk"} /\ (Len(r) > 1 => r[2] \in {"CR", "LF"})
    /\ \A i \in 1..Len(r) :
         r[i] \in {"keep", "len"} =>
            /\ i > 1 /\ r[i - 1] = "LF" /\ (i < Len(r) => r[i + 1] = "CR")
            /\ \A j \in 1 .. i - 1 : ~HeaderEndsAt(r, j)
    /\ Has(r, "keep") =>
         \A i \in 1..Len(r) : HeaderEndsAt(r, i) =>
            Len(r) <= i + 2 + (IF Has(r, "len") THEN BodyLen ELSE 0)

(* What may keep a slot from answering: a body that is not there when the  *)
(* header ends, a request sent before the last one was answered (init      *)
(* discards it), a CR or LF alone (LINE_BAD is answered with silence), and *)
(* an error page of which two writes end within: m_iv is empty then while  *)
(* bytes_to_send is not 0, and the loop of write() never ends.             *)
Excused == \/ odd # {}
           \/ \E i \in 1..Len(asked) : ~WellFormed(asked[i])
           \/ resp.inHeader = 2 /\ resp.iovs = 1

(* The values of every variable.                                           *)
TypeOK ==
    /\ m_TRIGMode \in {0, 1}
    /\ pc \in {"armed", "lines", "open", "do_request", "NO_RESOURCE", "FORBIDDEN_REQUEST",
               "BAD_REQUEST", "FILE_REQUEST", "EMPTY_FILE", "sending", "closed"}
    /\ conn.buf \in Seq(Symbols \cup {"NUL"}) /\ Len(conn.buf) <= BufSize
    /\ conn.start \in 0..conn.checked /\ conn.checked \in 0..Len(conn.buf)
    /\ conn.state \in {"REQUESTLINE", "HEADER", "CONTENT"}
    /\ conn.clen \in {0, BodyLen} /\ {conn.linger, conn.cgi} \subseteq BOOLEAN
    /\ m_string \in Seq(Symbols \cup {"NUL"})
    /\ m_file_address \in {"null", "map", "failed", "stale"} /\ maps \in 0..MaxClients
    /\ sock \in Seq(Symbols) /\ asked \in Seq(Requests)

(* A request that do_request gets was understood as its client meant it -  *)
(* method, keep-alive and body - and only one that cannot be is rejected,  *)
(* wherever recv cut it into pieces and whatever the slot's earlier        *)
(* requests and clients left behind.                                       *)
ParsedAsSent ==
    odd = {} /\ asked # << >> =>
        LET r == Head(asked) IN
        /\ pc = "do_request" =>
             /\ conn.cgi = (r[1] = "post")
             /\ conn.linger = Has(r, "keep")
             /\ Has(r, "len") => m_string = Body(r)
        /\ pc = "BAD_REQUEST" => conn.state # "REQUESTLINE" \/ r[1] = "junk"

(* The answer: the whole header, then the whole file.                      *)
Answer == [i \in 1 .. HeaderLen + (IF resp.iovs = 2 THEN FileLen ELSE 0) |->
             IF i <= HeaderLen THEN <<"header", i - 1>> ELSE <<"file", i - HeaderLen - 1>>]

(* The bytes sent are the answer's, in order, none twice and none missing  *)
(* when write() is done, however writev cuts it - unless two writes end    *)
(* within the header.                                                      *)
SentFaithful ==
    resp.inHeader < 2 => /\ out = SubSeq(Answer, 1, Len(out))
                         /\ out # << >> /\ resp.toSend = 0 => out = Answer

(* A file stays mapped only while its answer is being sent, and once for   *)
(* every client that was cut off in the middle of one (close_conn does not *)
(* unmap, and the next mmap overwrites m_file_address, or the next stat    *)
(* the size munmap is called with).                                        *)
MapsBounded ==
    maps <= count.cutOff + (IF pc \in {"FILE_REQUEST", "sending"} THEN 1 ELSE 0)

(* Every request is answered or its connection closed.                     *)
Answered == asked # << >> ~> asked = << >> \/ Excused

(* "Has the request been read completely?" (line 358): process_read does   *)
(* not wait for more of a well-formed request that is all there.           *)
CompleteIsTaken ==
    pc = "armed" /\ asked # << >> /\ "pipelined" \notin odd /\ WellFormed(Head(asked))
      => Len(conn.buf) < Len(Head(asked))
=============================================================================
