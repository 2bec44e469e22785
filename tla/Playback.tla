------------------------------- MODULE Playback -------------------------------
(***************************************************************************)
(* What a player of a recorded trace promises the panels that hear it: in  *)
(* one session, from Play or a seek to the end, each frame comes after the *)
(* one before it in the trace, none twice and none left out; a looped one  *)
(* begins again when the whole trace was heard; and a session is over when *)
(* a later one is heard.                                                   *)
(***************************************************************************)
EXTENDS Integers, Sequences

VARIABLES session,  \* the session heard last
          whole,    \* the last frame heard was the trace's last one
          heard     \* the frames heard in it, by their position in the trace

PInit == session = 0 /\ whole = FALSE /\ heard = << >>

\* The n frames of a trace that begin with the one at position first.
Stretch(first, n) == [i \in 1..n |-> first + i - 1]

\* n more frames of the session are heard: in one tick those with one timestamp.
Continue(n) ==
  /\ heard # << >>
  /\ session' = session
  /\ heard' = heard \o Stretch(heard[Len(heard)] + 1, n)

\* The session is looped.
Again(n) ==
  /\ whole
  /\ session' = session
  /\ heard' = Stretch(1, n)

\* A later session, at any position.
Begin(n) ==
  /\ session' > session
  /\ heard' = Stretch(heard'[1], n)

PNext ==
  \/ Len(heard') > Len(heard) /\ Continue(Len(heard') - Len(heard))
  \/ heard' # << >> /\ (Again(Len(heard')) \/ Begin(Len(heard')))

PSpec == PInit /\ [][PNext]_<<session, whole, heard>>
===============================================================================
