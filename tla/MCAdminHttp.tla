---------------------------- MODULE MCAdminHttp ----------------------------
(* Requests for TLC: short heads around the limits, with and without body. *)
EXTENDS AdminHttp

Line(method, path, size) ==
    [name |-> "request", wellFormed |-> TRUE, method |-> method, path |-> path, size |-> size]
Header(name, value, size) == [name |-> name, value |-> value, size |-> size]
Blank == Header("end", "", 1)
Byte == Header("byte", "", 1)

Good == Line("GET", "readyz", 2)
Samples ==
    { <<Good, Blank>>, <<Line("POST", "livez", 2), Blank>>,
      <<Line("GET", "livez", 2), Header("other", "", 1), Blank>>,
      <<Line("GET", "unknown", 2), Blank>>,
      <<[Good EXCEPT !.wellFormed = FALSE], Blank>>,
      <<[Good EXCEPT !.size = 6], Blank>>, <<[Good EXCEPT !.size = 7], Blank>>,
      <<[Good EXCEPT !.size = 5], Blank>>,
      <<Good, Header("other", "", 4), Blank>>, <<Good, Header("other", "", 5), Blank>>,
      <<Good, Header("none", "", 1), Blank>>,
      <<Good, Header("encoding", "identity", 1), Blank>>,
      <<Good, Header("encoding", "chunked", 1), Blank>> }
    \cup { <<Good, Header("length", n, 1), Blank, Byte, Byte, Byte>> : n \in {-3, -1, 0, 1, 2, 3} }
    \cup { <<Good, Header("length", 1, 1), Header("length", n, 1), Blank, Byte, Byte>> : n \in {1, 2} }

(* One client sends any of them, the other nothing past the request line. *)
Kept == <<Good>>
MCRequests == [c \in Conns |-> IF c = 1 THEN Samples ELSE {Kept}]
=============================================================================
