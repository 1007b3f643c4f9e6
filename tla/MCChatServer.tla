---------------------------- MODULE MCChatServer ----------------------------
(* Instances of ChatServer for TLC.                                        *)
EXTENDS ChatServer, TLC

CONSTANT r1

Ask(t, x) == [type |-> t, arg |-> x]

Names == {Ask("REGISTER", n) : n \in Nicks}

Talk == Names \cup {Ask("JOIN", r1), Ask("EXIT", NoCode), Ask("MESSAGE", NoCode)}

(* What the shipped client sends: rooms for two users or more.             *)
ClientRequests == Talk \cup {Ask("CREATE", 2)}

(* And with a payload that does not parse.                                 *)
NameRequests == ClientRequests \cup {Ask("REGISTER", Malformed)}
OddRequests == ClientRequests \cup {Ask("CREATE", 1), Ask("JOIN", Malformed)}

(* What another program may send: it need not register, a room may be for  *)
(* one, and a type may be unknown.                                         *)
AnyRequests == {Ask("CREATE", 1), Ask("CREATE", 2), Ask("JOIN", r1), Ask("EXIT", NoCode), Ask("UNKNOWN", NoCode)}

(* Connections, names, threads, descriptors and cells are interchangeable. *)
Symmetry == UNION {Permutations(S) : S \in {Conns, Nicks, Workers, Fds, Cells}}
=============================================================================
