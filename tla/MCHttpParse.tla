---------------------------- MODULE MCHttpParse ----------------------------
(* Small requests for TLC.                                                 *)
EXTENDS HttpParse

CRLF == <<CR, LF>>

Request(line, headers, eol, body) == [line |-> line, headers |-> headers, eol |-> eol, body |-> body]

MCLengths == [length0 |-> 0, length2 |-> 2, length3 |-> 3, minus1 |-> -1, minus9 |-> -9]

(* Well-formed ones: several headers, the forms of judge.html, which have  *)
(* no body, bodies with and without line ends, and one that is too long.   *)
MCWellFormed ==
    {Request("GET /", <<KeepAlive, "Host">>, CRLF, <<>>),
     Request("POST /0", <<"length0", KeepAlive>>, CRLF, <<>>),
     Request("POST /2", <<"length2", KeepAlive>>, CRLF, <<"user", "passwd">>),
     Request("POST /2", <<KeepAlive, "length3">>, CRLF, <<"user", CR, LF>>),
     Request("POST /2", <<"length2">>, CRLF, <<LF, "passwd">>),
     Request("GET /2", <<"length2">>, CRLF, <<"unread", "body">>),
     Request("GET /", <<"Host", "Accept", "Accept", "Cookie">>, CRLF, <<>>)}

(* A form without a length, whose body is the head of another request;     *)
(* lengths that are too small, too large and negative; a line that is      *)
(* rejected, one without a URL, and bare LFs.                              *)
MCMalformed ==
    {Request("POST /2", <<KeepAlive>>, CRLF, <<"GET /", CR, LF>>),
     Request("POST /2", <<"length0", KeepAlive>>, CRLF, <<"user", CR, LF>>),
     Request("POST /2", <<"length3", KeepAlive>>, CRLF, <<"user", "passwd">>),
     Request("POST /2", <<"minus1", KeepAlive>>, CRLF, <<"user">>),
     Request("POST /2", <<"minus9">>, CRLF, <<"user">>),
     Request("PUT /", <<KeepAlive>>, CRLF, <<>>),
     Request("GET http://host", <<>>, CRLF, <<>>),
     Request("GET /", <<KeepAlive>>, <<LF>>, <<>>)}

MCRequests == MCWellFormed \cup MCMalformed

MCPosts == {r \in MCWellFormed : r.line = "POST /2"}
=============================================================================
