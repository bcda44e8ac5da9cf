---------------------------- MODULE MCHttpServer ----------------------------
EXTENDS HttpServer

Bytes == {"METHOD", "SP", "/a", "/b", "/c", "HTTP/1.x", "text", ":", "CR", "LF", "nul"}

\* A request for target t with the header lines hs.
RequestLine(t) == <<"METHOD", "SP", t, "SP", "HTTP/1.x", "CR", "LF">>
Get(t, hs) == [text |-> RequestLine(t) \o hs \o <<"CR", "LF">>, path |-> <<t>>]
Header == <<"text", ":", "text", "CR", "LF">>
\* A header whose name is that of a method.
MethodHeader == <<"METHOD", ":", "SP", "text", "CR", "LF">>

\* One with an unknown method, one with text instead of a header, one without a version.
UnknownMethod == [text |-> <<"text", "SP", "/a", "SP", "HTTP/1.x", "CR", "LF", "CR", "LF">>,
                  path |-> <<"/a">>]
NoVersion == [text |-> <<"METHOD", "SP", "/a", "CR", "LF", "CR", "LF">>,
              path |-> <<"/a">>]
NoColon == [text |-> RequestLine("/a") \o <<"text", "CR", "LF", "CR", "LF">>,
            path |-> <<"/a">>]

Clients ==
  {<<Get("/a", <<>>), Get("/b", <<>>), Get("/c", <<>>)>>,
   <<Get("/a", Header), Get("/b", MethodHeader)>>,
   <<Get("/a", <<>>), UnknownMethod>>,
   <<NoVersion>>,
   <<NoColon, Get("/b", <<>>)>>}
=============================================================================
