---------------------------- MODULE MCHttpConn ------------------------------
(* Instances of HttpConn for TLC.                                          *)
EXTENDS HttpConn

CRLF == <<"CR", "LF">>

(* A page on a connection that stays, a login with an empty line after its *)
(* body, a request line that cannot be understood, and a line that ends in *)
(* LF alone.                                                               *)
SomeRequests ==
    { <<"get">> \o CRLF \o <<"keep">> \o CRLF \o CRLF,
      <<"post">> \o CRLF \o <<"len">> \o CRLF \o CRLF \o <<"user", "and", "passwd">> \o CRLF,
      <<"junk">> \o CRLF,
      <<"get", "LF">> }

(* ParsedAsSent is proved for such requests.                               *)
ASSUME RequestsAssumption == \A r \in SomeRequests : Legible(r)
=============================================================================
