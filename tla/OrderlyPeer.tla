---------------------------- MODULE OrderlyPeer ----------------------------
(***************************************************************************)
(* What ChatServer assumes of an Orderly peer: it asks one thing at a      *)
(* time, only what its place allows, waits for the answer, and leaves only *)
(* between requests.  The server may drop it at any time.  A peer whose    *)
(* input has ended is silent: in ChatServer, one that sends no more.  A    *)
(* peer that mixed up two answers is astray, and nothing is promised of it.*)
(*                                                                         *)
(* ChatClient refines this module as long as no answer is mixed up.        *)
(***************************************************************************)
VARIABLES peer,   \* where it is, as in ChatServer
          asked   \* the request it waits for, or the last one

vars == <<peer, asked>>

RequestTypes == {"REGISTER", "CREATE", "JOIN", "EXIT"}

Asks(type) == peer = CASE type = "REGISTER" -> "anon"
                       [] type \in {"CREATE", "JOIN"} -> "lobby"
                       [] type = "EXIT" -> "chat"

Believes == CASE asked = "REGISTER" -> {"anon", "lobby"}
              [] asked \in {"CREATE", "JOIN"} -> {"lobby", "chat"}
              [] asked = "EXIT" -> {"lobby"}

Init == peer = "off" /\ asked \in RequestTypes

Connect == peer = "off" /\ peer' \in {"anon", "gone"} /\ UNCHANGED asked

Ask(type) == Asks(type) /\ peer' = "waiting" /\ asked' = type

Answered == peer = "waiting" /\ peer' \in Believes \cup {"silent"} /\ UNCHANGED asked

Between == {"anon", "lobby", "chat"}

FallsSilent == peer \in Between /\ peer' = "silent" /\ UNCHANGED asked

Leave == peer \in Between \cup {"silent"} /\ peer' = "gone" /\ UNCHANGED asked

Dropped == peer # "off" /\ peer' = "dropped" /\ UNCHANGED asked

Strays == peer' = "astray" /\ asked' \in RequestTypes

Next == \/ Connect \/ Answered \/ FallsSilent \/ Leave \/ Dropped \/ Strays
        \/ \E type \in RequestTypes : Ask(type)

(* A dropped peer notices in its own time and asks in vain meanwhile.      *)
InVain == peer \in {"dropped", "gone"} /\ UNCHANGED peer /\ asked' \in RequestTypes

Spec == Init /\ [][Next \/ InVain]_vars
=============================================================================
