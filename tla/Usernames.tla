----------------------------- MODULE Usernames -----------------------------
(***************************************************************************)
(* What the global namespace promises: a name is free, reserved for a seat *)
(* that may come to be, or carried by one; and a name a seat has carried   *)
(* is never given to another.                                              *)
(***************************************************************************)
CONSTANTS Names, Holders, NoOne

VARIABLES
  standing,  \* what each name is
  bearer     \* what it is reserved for or carried by

namesVars == <<standing, bearer>>

NamesInit ==
  /\ standing \in [Names -> {"free", "seated"}]
  /\ bearer \in [Names -> Holders \cup {NoOne}]
  /\ \A n \in Names : standing[n] = "free" <=> bearer[n] = NoOne

Become(n, s, h) ==
  /\ standing' = [standing EXCEPT ![n] = s]
  /\ bearer' = [bearer EXCEPT ![n] = h]

Reserve(n, h) == standing[n] = "free" /\ Become(n, "reserved", h)
Release(n) == standing[n] = "reserved" /\ Become(n, "free", NoOne)

\* A seat carries the name reserved for it, or takes a free one at once.
Seat(n, h) ==
  /\ \/ standing[n] = "reserved" /\ bearer[n] = h
     \/ standing[n] = "free"
  /\ Become(n, "seated", h)

\* A step gives one name another standing.
NamesNext ==
  \E n \in {m \in Names : standing'[m] # standing[m]} :
    \/ Release(n)
    \/ LET h == bearer'[n] IN h \in Holders /\ (Reserve(n, h) \/ Seat(n, h))

NamesSpec == NamesInit /\ [][NamesNext]_namesVars
=============================================================================
