---------------------------- MODULE RelayProofs ----------------------------
(***************************************************************************)
(* Proofs about Relay, for any number of clients, sessions and messages.   *)
(***************************************************************************)
EXTENDS Relay, TLAPS

(* The candidates of m have been taken. *)
Under(m) == \/ state[m] \in {"choose", "called", "executed"}
            \/ state[m] = "done" /\ m \notin failed

Calling(m) == state[m] \in {"called", "executed"}

(* The hub's store: who has no host yet is entered by one client only. *)
StoreInv ==
  /\ \A s \in sessions : host[s] \in Client
  /\ \A s \in Session : \A c \in participants[s] : host[s] \in Client
  /\ \A s \in Session : \A c, d \in Client :
       host[s] = None /\ session[c] = s /\ session[d] = s => c = d
  /\ MembersKnown
  /\ killed \subseteq gone

(* Before there are candidates nothing has happened. *)
FreshInv(m) == ~ Under(m) =>
  /\ due[m] = {} /\ hostDue[m] = FALSE
  /\ \A c \in Client : got[m][c] = 0
  /\ state[m] \in {"new", "sent"} => m \notin failed

(* The candidates were in the session when they were taken, and are among
   those who ever joined it.                                               *)
CandidateInv(m) == Under(m) =>
  /\ about[m] \in Session /\ host[about[m]] \in Client /\ m \notin failed
  /\ due[m] \subseteq inside[m] \cap participants[about[m]]
  /\ state[m] = "done" => due[m] = {} /\ hostDue[m] = FALSE
  /\ Calling(m) =>
       /\ callee[m] \in Client /\ Addressed(m, callee[m])
       /\ callee[m] = host[about[m]]
            \/ callee[m] \in inside[m] \cap participants[about[m]]
  /\ \A c \in Client : got[m][c] > 0 => c \in inside[m] \/ c = host[about[m]]

(* How often c is still a candidate, and may still be made to execute m. *)
Due(m, c) == (IF c \in due[m] THEN 1 ELSE 0)
           + (IF hostDue[m] /\ c = host[about[m]] THEN 1 ELSE 0)

Left(m, c) == Due(m, c) + (IF state[m] = "called" /\ c = callee[m] THEN 1 ELSE 0)

Limit(m, c) ==
  IF c = host[about[m]] /\ c \in participants[about[m]] THEN 2 ELSE 1

LeftInv(m) ==
  Under(m) => \A c \in Client : got[m][c] + Left(m, c) <= Limit(m, c)

Awaited(m, c) == \/ c \in due[m] \/ (hostDue[m] /\ c = host[about[m]])
                 \/ state[m] = "called" /\ c = callee[m]

(* Whom a broadcast has to reach, it has reached or will try to. *)
ReachInv(m) == Under(m) /\ to[m] = None =>
  \A c \in (inside[m] \cup {host[about[m]]}) \ {from[m]} :
    got[m][c] > 0 \/ c \in gone \/ Awaited(m, c)

(* A private message stays with its target, whose answer is kept. *)
TargetInv(m) == to[m] # None =>
  /\ \A c \in Client \ {to[m]} : got[m][c] = 0
  /\ Under(m) /\ to[m] \in (inside[m] \cup {host[about[m]]}) \ gone =>
       \/ reply[m] = to[m] \/ Awaited(m, to[m])
       \/ state[m] = "executed" /\ callee[m] = to[m]

MessageInv(m) == /\ FreshInv(m) /\ CandidateInv(m) /\ LeftInv(m)
                 /\ ReachInv(m) /\ TargetInv(m)

(* The inductive invariant. *)
Inv == RelayTypeOK /\ StoreInv /\ \A m \in Message : MessageInv(m)

LEMMA InvInit == RelayInit => Inv
<1> SUFFICES ASSUME RelayInit PROVE Inv
  OBVIOUS
<1> USE MembershipAssumption, RelayAssumption DEF RelayInit, Init
<1>1. RelayTypeOK
  BY DEF RelayTypeOK, TypeOK, RelayState
<1>2. StoreInv
  BY DEF StoreInv, MembersKnown
<1>3. ASSUME NEW m \in Message PROVE MessageInv(m)
  BY DEF MessageInv, FreshInv, CandidateInv, LeftInv, ReachInv, TargetInv, Under
<1> QED
  BY <1>1, <1>2, <1>3 DEF Inv

-----------------------------------------------------------------------------
(* The store *)

(* A published session keeps its host and its participants. *)
StoreGrows ==
  \A s \in Session : host[s] \in Client =>
    host'[s] = host[s] /\ participants[s] \subseteq participants'[s]

LEMMA StoreStep ==
  RelayTypeOK /\ StoreInv /\ Next => StoreGrows /\ gone \subseteq gone'
                                  /\ (killed' = killed => StoreInv')
<1> SUFFICES ASSUME RelayTypeOK, StoreInv, Next
             PROVE  StoreGrows /\ gone \subseteq gone' /\ (killed' = killed => StoreInv')
  OBVIOUS
<1> USE MembershipAssumption DEF RelayTypeOK, TypeOK, StoreInv, MembersKnown, StoreGrows
<1>1. ASSUME NEW c \in Client, Lose(c)
      PROVE  StoreGrows /\ gone \subseteq gone' /\ (killed' = killed => StoreInv')
  BY <1>1 DEF Lose
<1>2. ASSUME NEW c \in Client, NEW s \in Session, Enter(c, s)
      PROVE  StoreGrows /\ gone \subseteq gone' /\ (killed' = killed => StoreInv')
  BY <1>2 DEF Enter
<1>3. ASSUME NEW c \in Client, NEW s \in Session, Publish(c, s)
      PROVE  StoreGrows /\ gone \subseteq gone' /\ (killed' = killed => StoreInv')
  BY <1>3 DEF Publish
<1>4. ASSUME NEW c \in Client, NEW s \in Session, Add(c, s)
      PROVE  StoreGrows /\ gone \subseteq gone' /\ (killed' = killed => StoreInv')
  BY <1>4 DEF Add
<1>5. ASSUME NEW s \in Session, End(s)
      PROVE  StoreGrows /\ gone \subseteq gone' /\ (killed' = killed => StoreInv')
  BY <1>5 DEF End
<1> QED
  BY <1>1, <1>2, <1>3, <1>4, <1>5 DEF Next

LEMMA StoreTypes == TypeOK /\ Next => TypeOK'
  BY MembershipAssumption
     DEF TypeOK, Next, Lose, Enter, Publish, Add, End

(* A step of the hub changes nothing a message depends on but by growth. *)
LEMMA StoreKeeps == Inv /\ Next /\ UNCHANGED relayVars => Inv'
<1> SUFFICES ASSUME Inv, Next, UNCHANGED relayVars PROVE Inv'
  OBVIOUS
<1>1. StoreGrows /\ gone \subseteq gone' /\ StoreInv'
  BY StoreStep DEF Inv, relayVars
<1>2. RelayTypeOK'
  BY StoreTypes DEF Inv, RelayTypeOK, relayVars
<1>3. ASSUME NEW m \in Message PROVE MessageInv(m)'
  <2> USE DEF relayVars, Under, Calling
  <2>1. Under(m) => /\ about[m] \in Session /\ host[about[m]] \in Client
                    /\ host'[about[m]] = host[about[m]]
                    /\ participants[about[m]] \subseteq participants'[about[m]]
    BY <1>1 DEF Inv, MessageInv, CandidateInv, StoreGrows
  <2>2. FreshInv(m)' /\ CandidateInv(m)'
    BY <2>1 DEF Inv, MessageInv, FreshInv, CandidateInv, Addressed
  <2>3. ReachInv(m)' /\ TargetInv(m)'
    BY <1>1, <2>1 DEF Inv, MessageInv, ReachInv, TargetInv, Awaited
  <2>4. ASSUME NEW c \in Client, Under(m)
        PROVE  got'[m][c] + Left(m, c)' <= Limit(m, c)'
    <3>1. Left(m, c)' = Left(m, c)
      BY <2>1, <2>4 DEF Left, Due
    <3>2. Limit(m, c) <= Limit(m, c)' /\ Limit(m, c) \in Nat /\ Limit(m, c)' \in Nat
      BY <2>1, <2>4 DEF Limit
    <3>3. got[m][c] + Left(m, c) <= Limit(m, c)
      BY <2>4 DEF Inv, MessageInv, LeftInv
    <3>4. got'[m][c] = got[m][c] /\ got[m][c] \in Nat /\ Left(m, c) \in Nat
      BY DEF Inv, RelayTypeOK, Left, Due
    <3> QED
      BY <3>1, <3>2, <3>3, <3>4
  <2>5. LeftInv(m)'
    BY <2>4 DEF LeftInv
  <2> QED
    BY <2>2, <2>3, <2>5 DEF MessageInv
<1> QED
  BY <1>1, <1>2, <1>3 DEF Inv

(* A handler has set Ready. *)
LEMMA GetReadyStep == ASSUME NEW c \in Client, Inv, GetReady(c) PROVE Inv'
<1> USE DEF GetReady, vars
<1>1. RelayTypeOK' /\ StoreInv'
  BY DEF Inv, RelayTypeOK, TypeOK, StoreInv, MembersKnown
<1>2. ASSUME NEW m \in Message PROVE MessageInv(m)'
  BY DEF Inv, MessageInv, FreshInv, CandidateInv, Addressed, LeftInv, Left, Due,
         Limit, ReachInv, TargetInv, Awaited, Under, Calling
<1> QED
  BY <1>1, <1>2 DEF Inv

(* KILL of a lost client. *)
LEMMA KillStep == ASSUME NEW c \in Client, Inv, Kill(c) PROVE Inv'
<1> USE DEF Kill, vars
<1>1. RelayTypeOK' /\ StoreInv'
  BY DEF Inv, RelayTypeOK, TypeOK, StoreInv, MembersKnown
<1>2. ASSUME NEW m \in Message PROVE MessageInv(m)'
  BY DEF Inv, MessageInv, FreshInv, CandidateInv, Addressed, LeftInv, Left, Due,
         Limit, ReachInv, TargetInv, Awaited, Under, Calling
<1> QED
  BY <1>1, <1>2 DEF Inv

-----------------------------------------------------------------------------
(* One message *)

(* What a step of m leaves alone. *)
Only(m) ==
  /\ UNCHANGED <<vars, ready, killed>>
  /\ \A n \in Message \ {m} :
       /\ state'[n] = state[n] /\ from'[n] = from[n] /\ to'[n] = to[n]
       /\ about'[n] = about[n] /\ inside'[n] = inside[n] /\ due'[n] = due[n]
       /\ hostDue'[n] = hostDue[n] /\ callee'[n] = callee[n]
       /\ got'[n] = got[n] /\ reply'[n] = reply[n]
       /\ n \in failed' <=> n \in failed

LEMMA OneMessage ==
  ASSUME NEW m \in Message, Inv, RelayTypeOK', Only(m), MessageInv(m)'
  PROVE  Inv'
<1>1. StoreInv'
  BY DEF Inv, StoreInv, MembersKnown, Only, vars
<1>2. ASSUME NEW n \in Message \ {m} PROVE MessageInv(n)'
  <2> USE DEF Only, vars, Inv, MessageInv, Under
  <2>1. FreshInv(n)' /\ CandidateInv(n)'
    BY DEF FreshInv, CandidateInv, Addressed, Calling
  <2>2. LeftInv(n)'
    BY DEF LeftInv, Left, Due, Limit
  <2>3. ReachInv(n)' /\ TargetInv(n)'
    BY DEF ReachInv, TargetInv, Awaited
  <2> QED
    BY <2>1, <2>2, <2>3
<1> QED
  BY <1>1, <1>2 DEF Inv

(* What taking the next candidate does to those that are left. *)
TakeEffect(m, c) ==
  /\ state[m] = "choose"
  /\ due' \in [Message -> SUBSET Client] /\ hostDue' \in [Message -> BOOLEAN]
  /\ \A n \in Message \ {m} : due'[n] = due[n] /\ hostDue'[n] = hostDue[n]
  /\ due'[m] \subseteq due[m] /\ due[m] \subseteq due'[m] \cup {c}
  /\ c \in due[m] \/ c = host[about[m]]
  /\ \/ hostDue'[m] = hostDue[m]
     \/ hostDue'[m] = FALSE /\ c = host[about[m]]
  /\ \A d \in Client :
       (IF d \in due'[m] THEN 1 ELSE 0)
       + (IF hostDue'[m] /\ d = host[about[m]] THEN 1 ELSE 0)
       = Due(m, d) - (IF d = c THEN 1 ELSE 0)

LEMMA Taken ==
  ASSUME NEW m \in Message, NEW c \in Client, Inv, Take(m, c)
  PROVE  TakeEffect(m, c)
<1>1. due \in [Message -> SUBSET Client] /\ hostDue \in [Message -> BOOLEAN]
  BY DEF Inv, RelayTypeOK
<1>2. CASE c \in due[m] /\ due' = [due EXCEPT ![m] = @ \ {c}] /\ hostDue' = hostDue
  BY <1>1, <1>2 DEF Take, TakeEffect, Due
<1>3. CASE /\ due[m] = {} /\ hostDue[m] /\ c = host[about[m]] /\ due' = due
           /\ hostDue' = [hostDue EXCEPT ![m] = FALSE]
  BY <1>1, <1>3 DEF Take, TakeEffect, Due
<1> QED
  BY <1>2, <1>3 DEF Take

(* So a candidate that was passed over or is being called counts no more than
   before: taking it leaves one call less to come.                         *)
LEMMA TakenLeft ==
  ASSUME NEW m \in Message, NEW c \in Client, Inv, TakeEffect(m, c),
         state'[m] = "choose" \/ (state'[m] = "called" /\ callee'[m] = c),
         UNCHANGED <<vars, about, got>>
  PROVE  LeftInv(m)'
<1> SUFFICES ASSUME NEW d \in Client PROVE got'[m][d] + Left(m, d)' <= Limit(m, d)'
  BY DEF LeftInv
<1>1. got[m][d] + Left(m, d) <= Limit(m, d) /\ got[m][d] \in Nat
  BY DEF Inv, RelayTypeOK, MessageInv, LeftInv, Under, TakeEffect
<1>2. Left(m, d) = Due(m, d) /\ Due(m, d) \in Nat
  BY DEF TakeEffect, Left, Due
<1>3. Due(m, d)' = Due(m, d) - (IF d = c THEN 1 ELSE 0) /\ Due(m, d)' \in Nat
  BY DEF TakeEffect, Due, vars
<1>4. Left(m, d)' <= Due(m, d) /\ Left(m, d)' \in Nat
  <2>1. CASE state'[m] = "choose"
    BY <1>2, <1>3, <2>1 DEF Left
  <2>2. CASE state'[m] = "called" /\ callee'[m] = c
    BY <1>2, <1>3, <2>2 DEF Left
  <2> QED
    BY <2>1, <2>2
<1>5. Limit(m, d)' = Limit(m, d) /\ Limit(m, d) \in Nat /\ got'[m][d] = got[m][d]
  BY DEF Limit, vars
<1> QED
  BY <1>1, <1>2, <1>4, <1>5

LEMMA SendStep ==
  ASSUME NEW m \in Message, NEW c \in Client, NEW t \in Client \cup {None},
         NEW s \in Session, Inv, Send(m, c, t, s) PROVE Inv'
<1> USE MembershipAssumption, RelayAssumption DEF Send, vars, Under, Calling
<1>2. RelayTypeOK'
  BY DEF Inv, RelayTypeOK, TypeOK, RelayState
<1>3. Only(m)
  BY DEF Only, Inv, RelayTypeOK
<1>4. FreshInv(m)' /\ CandidateInv(m)'
  <2>1. ~ Under(m) /\ ~ Under(m)' /\ state[m] = "new"
    BY DEF Inv, RelayTypeOK
  <2> QED
    BY <2>1 DEF Inv, MessageInv, FreshInv, CandidateInv
<1>5. LeftInv(m)'
  BY DEF Inv, RelayTypeOK, TypeOK, MessageInv, FreshInv, CandidateInv, LeftInv, Left, Due,
         Limit
<1>6. ReachInv(m)' /\ TargetInv(m)'
  <2>1. ~ Under(m) /\ ~ Under(m)' /\ got' = got
    BY DEF Inv, RelayTypeOK
  <2>2. \A d \in Client : got'[m][d] = 0
    BY <2>1 DEF Inv, MessageInv, FreshInv
  <2> QED
    BY <2>1, <2>2 DEF ReachInv, TargetInv
<1> QED
  BY <1>2, <1>3, <1>4, <1>5, <1>6, OneMessage DEF MessageInv

LEMMA NotFoundStep ==
  ASSUME NEW m \in Message, Inv, NotFound(m) PROVE Inv'
<1> USE MembershipAssumption, RelayAssumption DEF NotFound, vars, Under, Calling
<1>2. RelayTypeOK'
  BY DEF Inv, RelayTypeOK, TypeOK, RelayState
<1>3. Only(m)
  BY DEF Only, Inv, RelayTypeOK
<1>4. FreshInv(m)' /\ CandidateInv(m)'
  <2>1. ~ Under(m) /\ ~ Under(m)'
    BY DEF Inv, RelayTypeOK
  <2>2. FreshInv(m)'
    BY <2>1 DEF Inv, RelayTypeOK, MessageInv, FreshInv
  <2> QED
    BY <2>1, <2>2 DEF CandidateInv
<1>5. LeftInv(m)'
  BY DEF Inv, RelayTypeOK, TypeOK, MessageInv, FreshInv, CandidateInv, LeftInv, Left, Due,
         Limit
<1>6. ReachInv(m)' /\ TargetInv(m)'
  BY DEF Inv, RelayTypeOK, TypeOK, MessageInv, FreshInv, CandidateInv, ReachInv, TargetInv,
         Awaited, Addressed, StoreInv, MembersKnown
<1> QED
  BY <1>2, <1>3, <1>4, <1>5, <1>6, OneMessage DEF MessageInv

LEMMA ChooseStep ==
  ASSUME NEW m \in Message, Inv, Choose(m) PROVE Inv'
<1> USE MembershipAssumption, RelayAssumption DEF Choose, Present, vars, Under, Calling
<1> DEFINE s == about[m]
<1>1. /\ s \in Session /\ host[s] \in Client /\ m \notin failed
      /\ \A c \in Client : got'[m][c] = 0
  BY DEF Inv, RelayTypeOK, TypeOK, StoreInv, MessageInv, FreshInv
<1>2. RelayTypeOK'
  BY DEF Inv, RelayTypeOK, TypeOK, RelayState
<1>3. Only(m)
  BY DEF Only, Inv, RelayTypeOK
<1>4. /\ state'[m] = "choose" /\ hostDue'[m] = TRUE /\ host' = host /\ about' = about
      /\ participants' = participants
      /\ due'[m] = {c \in participants[s] : c \in ready /\ session[c] = s}
      /\ inside'[m] = {c \in ready : session[c] = s}
      /\ participants[s] \subseteq Client /\ ready \subseteq Client
  BY <1>1 DEF Inv, RelayTypeOK, TypeOK
<1>5. inside'[m] \subseteq due'[m] \cup {host[s]}
  BY <1>1, <1>4 DEF Inv, StoreInv, MembersKnown
<1>6. FreshInv(m)' /\ CandidateInv(m)'
  BY <1>1, <1>4 DEF FreshInv, CandidateInv
<1>7. LeftInv(m)'
  <2> SUFFICES ASSUME NEW c \in Client
               PROVE  got'[m][c] + Left(m, c)' <= Limit(m, c)'
    BY DEF LeftInv
  <2>1. Left(m, c)' = (IF c \in due'[m] THEN 1 ELSE 0) + (IF c = host[s] THEN 1 ELSE 0)
    BY <1>4 DEF Left, Due
  <2>2. Limit(m, c)' = IF c = host[s] /\ c \in participants[s] THEN 2 ELSE 1
    BY <1>4 DEF Limit
  <2> QED
    BY <1>1, <1>4, <2>1, <2>2
<1>8. ReachInv(m)' /\ TargetInv(m)'
  BY <1>1, <1>4, <1>5 DEF ReachInv, TargetInv, Awaited
<1> QED
  BY <1>2, <1>3, <1>6, <1>7, <1>8, OneMessage DEF MessageInv

LEMMA SkipStep ==
  ASSUME NEW m \in Message, NEW c \in Client, Inv, Skip(m, c) PROVE Inv'
<1> USE MembershipAssumption, RelayAssumption DEF Skip, vars, Under, Calling
<1>1. TakeEffect(m, c)
  BY Taken
<1>2. RelayTypeOK'
  BY <1>1 DEF Inv, RelayTypeOK, TypeOK, RelayState, TakeEffect
<1>3. Only(m)
  BY <1>1 DEF Only, Inv, RelayTypeOK, TakeEffect
<1>4. FreshInv(m)' /\ CandidateInv(m)'
  BY <1>1 DEF Inv, RelayTypeOK, TypeOK, RelayState, MessageInv, FreshInv, CandidateInv,
         Addressed, StoreInv, MembersKnown, TakeEffect
<1>5. LeftInv(m)'
  <2>1. state'[m] = "choose"
    BY <1>1 DEF Inv, RelayTypeOK, TakeEffect
  <2>2. UNCHANGED <<vars, about, got>>
    OBVIOUS
  <2> QED
    BY <1>1, <2>1, <2>2, TakenLeft
<1>6. \A d \in Client : d # c => (Awaited(m, d) => Awaited(m, d)')
  BY <1>1 DEF TakeEffect, Awaited, Inv, MessageInv, CandidateInv
<1>7. host[about[m]] \in Client /\ inside[m] \subseteq Client
  BY <1>1 DEF Inv, RelayTypeOK, MessageInv, CandidateInv, TakeEffect
<1>8. ReachInv(m)'
  BY <1>1, <1>6, <1>7 DEF Inv, MessageInv, ReachInv, TakeEffect, Addressed
<1>9. TargetInv(m)'
  BY <1>1, <1>6, <1>7 DEF Inv, MessageInv, TargetInv, TakeEffect, Addressed
<1> QED
  BY <1>2, <1>3, <1>4, <1>5, <1>8, <1>9, OneMessage DEF MessageInv

LEMMA CallStep ==
  ASSUME NEW m \in Message, NEW c \in Client, Inv, Call(m, c) PROVE Inv'
<1> USE MembershipAssumption, RelayAssumption DEF Call, vars, Under, Calling
<1>1. TakeEffect(m, c)
  BY Taken
<1>2. RelayTypeOK'
  BY <1>1 DEF Inv, RelayTypeOK, TypeOK, RelayState, TakeEffect
<1>3. Only(m)
  BY <1>1 DEF Only, Inv, RelayTypeOK, TakeEffect
<1>4. FreshInv(m)' /\ CandidateInv(m)'
  BY <1>1 DEF Inv, RelayTypeOK, TypeOK, RelayState, MessageInv, FreshInv, CandidateInv,
         Addressed, StoreInv, MembersKnown, TakeEffect
<1>5. LeftInv(m)'
  <2>1. state'[m] = "called" /\ callee'[m] = c
    BY <1>1 DEF Inv, RelayTypeOK, TakeEffect
  <2>2. UNCHANGED <<vars, about, got>>
    OBVIOUS
  <2> QED
    BY <1>1, <2>1, <2>2, TakenLeft
<1>6. ReachInv(m)' /\ TargetInv(m)'
  BY <1>1 DEF Inv, RelayTypeOK, TypeOK, MessageInv, FreshInv, CandidateInv, ReachInv, TargetInv,
         Awaited, Addressed, StoreInv, MembersKnown, TakeEffect
<1> QED
  BY <1>2, <1>3, <1>4, <1>5, <1>6, OneMessage DEF MessageInv

LEMMA CallFailsStep ==
  ASSUME NEW m \in Message, NEW c \in Client, Inv, CallFails(m, c) PROVE Inv'
<1> USE MembershipAssumption, RelayAssumption DEF CallFails, vars, Under, Calling
<1>1. TakeEffect(m, c)
  BY Taken
<1>2. RelayTypeOK'
  BY <1>1 DEF Inv, RelayTypeOK, TypeOK, RelayState, TakeEffect
<1>3. Only(m)
  BY <1>1 DEF Only, Inv, RelayTypeOK, TakeEffect
<1>4. FreshInv(m)' /\ CandidateInv(m)'
  BY <1>1 DEF Inv, RelayTypeOK, TypeOK, RelayState, MessageInv, FreshInv, CandidateInv,
         Addressed, StoreInv, MembersKnown, TakeEffect
<1>5. LeftInv(m)'
  <2>1. state'[m] = "choose"
    BY <1>1 DEF Inv, RelayTypeOK, TakeEffect
  <2>2. UNCHANGED <<vars, about, got>>
    OBVIOUS
  <2> QED
    BY <1>1, <2>1, <2>2, TakenLeft
<1>6. ReachInv(m)' /\ TargetInv(m)'
  BY <1>1 DEF Inv, RelayTypeOK, TypeOK, MessageInv, FreshInv, CandidateInv, ReachInv, TargetInv,
         Awaited, Addressed, StoreInv, MembersKnown, TakeEffect
<1> QED
  BY <1>2, <1>3, <1>4, <1>5, <1>6, OneMessage DEF MessageInv

LEMMA ExecuteStep ==
  ASSUME NEW m \in Message, Inv, Execute(m) PROVE Inv'
<1> USE MembershipAssumption, RelayAssumption DEF Execute, vars, Under, Calling
<1> DEFINE c == callee[m]
<1>1. /\ Under(m) /\ c \in Client /\ Addressed(m, c)
      /\ state'[m] = "executed" /\ state'[m] # "called"
      /\ got'[m][c] = got[m][c] + 1
      /\ \A d \in Client \ {c} : got'[m][d] = got[m][d]
      /\ \A d \in Client : got[m][d] \in 0..2
  BY DEF Inv, RelayTypeOK, MessageInv, CandidateInv
<1>2. \A d \in Client : Left(m, d) \in Nat /\ got[m][d] + Left(m, d) <= Limit(m, d)
  BY <1>1 DEF Inv, MessageInv, LeftInv, Left, Due
<1>3. \A d \in Client : Left(m, d)' = IF d = c THEN Left(m, d) - 1 ELSE Left(m, d)
  BY <1>1 DEF Left, Due
<1>4. Limit(m, c) \in 1..2 /\ Left(m, c) >= 1
  BY <1>1 DEF Left, Due, Limit
<1>5. got[m][c] + 1 \in 0..2
  BY <1>1, <1>2, <1>4
<1>6. RelayTypeOK'
  BY <1>5 DEF Inv, RelayTypeOK, TypeOK, RelayState
<1>7. Only(m)
  BY DEF Only, Inv, RelayTypeOK
<1>8. FreshInv(m)' /\ CandidateInv(m)'
  BY <1>1 DEF Inv, RelayTypeOK, MessageInv, FreshInv, CandidateInv, Addressed
<1>9. LeftInv(m)'
  <2>1. \A d \in Client : Limit(m, d)' = Limit(m, d)
    BY DEF Limit
  <2> QED
    BY <1>1, <1>2, <1>3, <1>4, <2>1 DEF LeftInv
<1>10. ReachInv(m)'
  <2> SUFFICES ASSUME to[m] = None,
                      NEW d \in (inside[m] \cup {host[about[m]]}) \ {from[m]}
               PROVE  got'[m][d] > 0 \/ d \in gone \/ Awaited(m, d)'
    BY DEF ReachInv
  <2>1. d \in Client
    BY <1>1 DEF Inv, RelayTypeOK, MessageInv, CandidateInv
  <2>2. CASE d = c
    BY <1>1, <2>2
  <2>3. CASE d # c
    BY <1>1, <2>1, <2>3 DEF Inv, MessageInv, ReachInv, Awaited
  <2> QED
    BY <2>2, <2>3
<1>11. TargetInv(m)'
  BY <1>1 DEF Inv, MessageInv, TargetInv, Awaited, Addressed
<1> QED
  BY <1>6, <1>7, <1>8, <1>9, <1>10, <1>11, OneMessage DEF MessageInv

LEMMA AnswerStep ==
  ASSUME NEW m \in Message, Inv, Answer(m) PROVE Inv'
<1> USE MembershipAssumption, RelayAssumption DEF Answer, vars, Under, Calling
<1>2. RelayTypeOK'
  BY DEF Inv, RelayTypeOK, TypeOK, RelayState
<1>3. Only(m)
  BY DEF Only, Inv, RelayTypeOK
<1>4. FreshInv(m)' /\ CandidateInv(m)'
  BY DEF Inv, RelayTypeOK, TypeOK, RelayState, MessageInv, FreshInv, CandidateInv,
         Addressed, StoreInv, MembersKnown
<1>5. LeftInv(m)'
  BY DEF Inv, RelayTypeOK, TypeOK, MessageInv, FreshInv, CandidateInv, LeftInv, Left, Due,
         Limit
<1>6. ReachInv(m)' /\ TargetInv(m)'
  BY DEF Inv, RelayTypeOK, TypeOK, MessageInv, FreshInv, CandidateInv, ReachInv, TargetInv,
         Awaited, Addressed, StoreInv, MembersKnown
<1> QED
  BY <1>2, <1>3, <1>4, <1>5, <1>6, OneMessage DEF MessageInv

LEMMA AbortStep ==
  ASSUME NEW m \in Message, Inv, Abort(m) PROVE Inv'
<1> USE MembershipAssumption, RelayAssumption DEF Abort, vars, Under, Calling
<1>2. RelayTypeOK'
  BY DEF Inv, RelayTypeOK, TypeOK, RelayState
<1>3. Only(m)
  BY DEF Only, Inv, RelayTypeOK
<1>4. FreshInv(m)' /\ CandidateInv(m)'
  BY DEF Inv, RelayTypeOK, TypeOK, RelayState, MessageInv, FreshInv, CandidateInv,
         Addressed, StoreInv, MembersKnown
<1>5. LeftInv(m)'
  <2>1. state'[m] = "choose" /\ state'[m] # "called" /\ Under(m)
    BY DEF Inv, RelayTypeOK
  <2>2. \A d \in Client : Left(m, d)' <= Left(m, d) /\ Left(m, d) \in Nat
                       /\ Left(m, d)' \in Nat
    BY <2>1 DEF Left, Due
  <2>3. \A d \in Client : Limit(m, d)' = Limit(m, d) /\ Limit(m, d) \in 1..2
                       /\ got'[m][d] = got[m][d] /\ got[m][d] \in 0..2
    BY DEF Limit, Inv, RelayTypeOK
  <2> QED
    BY <2>1, <2>2, <2>3 DEF Inv, MessageInv, LeftInv
<1>6. ReachInv(m)' /\ TargetInv(m)'
  BY DEF Inv, RelayTypeOK, TypeOK, MessageInv, FreshInv, CandidateInv, ReachInv, TargetInv,
         Awaited, Addressed, StoreInv, MembersKnown
<1> QED
  BY <1>2, <1>3, <1>4, <1>5, <1>6, OneMessage DEF MessageInv

LEMMA ReturnStep ==
  ASSUME NEW m \in Message, Inv, Return(m) PROVE Inv'
<1> USE MembershipAssumption, RelayAssumption DEF Return, vars, Under, Calling
<1>2. RelayTypeOK'
  BY DEF Inv, RelayTypeOK, TypeOK, RelayState
<1>3. Only(m)
  BY DEF Only, Inv, RelayTypeOK
<1>4. FreshInv(m)' /\ CandidateInv(m)'
  BY DEF Inv, RelayTypeOK, TypeOK, RelayState, MessageInv, FreshInv, CandidateInv,
         Addressed, StoreInv, MembersKnown
<1>5. LeftInv(m)'
  BY DEF Inv, RelayTypeOK, TypeOK, MessageInv, FreshInv, CandidateInv, LeftInv, Left, Due,
         Limit
<1>6. ReachInv(m)' /\ TargetInv(m)'
  BY DEF Inv, RelayTypeOK, TypeOK, MessageInv, FreshInv, CandidateInv, ReachInv, TargetInv,
         Awaited, Addressed, StoreInv, MembersKnown
<1> QED
  BY <1>2, <1>3, <1>4, <1>5, <1>6, OneMessage DEF MessageInv

-----------------------------------------------------------------------------

LEMMA InvStep == Inv /\ [RelayNext]_allVars => Inv'
<1> SUFFICES ASSUME Inv, [RelayNext]_allVars PROVE Inv'
  OBVIOUS
<1>1. CASE HubStep
  BY <1>1, StoreKeeps DEF HubStep
<1>2. ASSUME NEW c \in Client, GetReady(c) \/ Kill(c) PROVE Inv'
  BY <1>2, GetReadyStep, KillStep
<1>3. ASSUME NEW m \in Message, NEW c \in Client, NEW t \in Client \cup {None},
             NEW s \in Session, Send(m, c, t, s)
      PROVE  Inv'
  BY <1>3, SendStep
<1>4. ASSUME NEW m \in Message, Handle(m) PROVE Inv'
  <2>1. ASSUME NEW c \in Client, Skip(m, c) \/ Call(m, c) \/ CallFails(m, c)
        PROVE  Inv'
    BY <2>1, SkipStep, CallStep, CallFailsStep
  <2> QED
    BY <1>4, <2>1, NotFoundStep, ChooseStep, ReturnStep, AbortStep DEF Handle
<1>5. ASSUME NEW m \in Message, Remote(m) PROVE Inv'
  BY <1>5, ExecuteStep, AnswerStep DEF Remote
<1>6. CASE UNCHANGED allVars
  <2>1. RelayTypeOK' /\ StoreInv'
    BY <1>6 DEF Inv, RelayTypeOK, TypeOK, StoreInv, MembersKnown, allVars, relayVars, vars
  <2>2. ASSUME NEW m \in Message PROVE MessageInv(m)'
    BY <1>6 DEF Inv, MessageInv, FreshInv, CandidateInv, Addressed, LeftInv, Left, Due,
       Limit, ReachInv, TargetInv, Awaited, Under, Calling, allVars, relayVars, vars
  <2> QED
    BY <2>1, <2>2 DEF Inv
<1> QED
  BY <1>1, <1>2, <1>3, <1>4, <1>5, <1>6 DEF RelayNext

(* Inv holds in every reachable state of the relay. *)
THEOREM Invariant == RelaySpec => []Inv
  BY InvInit, InvStep, PTL DEF RelaySpec

(* Every variable keeps its type; that no client executes a message more than
   twice rests on the candidates Hub.Handle still has to call.             *)
THEOREM TypesCorrect == RelaySpec => []RelayTypeOK
  BY Invariant, PTL DEF Inv

(* Hub.Handle calls nobody twice but a host that joined its own session, for
   any number of clients, sessions and messages handled at the same time.  *)
THEOREM CalledOnce == RelaySpec => []OnceUnlessHostJoined
<1>1. Inv => OnceUnlessHostJoined
  <2> SUFFICES ASSUME Inv, NEW m \in Message, NEW c \in Client, got[m][c] > 1
               PROVE  c = host[about[m]] /\ c \in participants[about[m]]
    BY DEF OnceUnlessHostJoined
  <2>1. Under(m)
    BY DEF Inv, MessageInv, FreshInv
  <2>2. got[m][c] \in 0..2 /\ Left(m, c) \in Nat /\ got[m][c] + Left(m, c) <= Limit(m, c)
    BY <2>1 DEF Inv, RelayTypeOK, MessageInv, LeftInv, Left, Due
  <2> QED
    BY <2>2 DEF Limit
<1> QED
  BY <1>1, Invariant, PTL

(* A broadcast that Hub.Handle has returned from was executed by everybody
   who was in the session, and Ready, when the candidates were taken, and by
   the host, but for those that are lost, whatever happened in between.    *)
THEOREM BroadcastReaches == RelaySpec => []BroadcastComplete
<1>1. Inv => BroadcastComplete
  BY DEF Inv, MessageInv, CandidateInv, ReachInv, Awaited, Under, BroadcastComplete
<1> QED
  BY <1>1, Invariant, PTL

(* A private message stays private, and its sender gets the answer of a target
   that was in the session and Ready, or is the host, and is not lost.     *)
THEOREM PrivateReaches == RelaySpec => []PrivateAnswered
<1>1. Inv => PrivateAnswered
  BY DEF Inv, MessageInv, CandidateInv, TargetInv, Awaited, Under, PrivateAnswered
<1> QED
  BY <1>1, Invariant, PTL

(* Clients that have moved on to another session execute nothing of the old. *)
THEOREM MembersExecute == RelaySpec => []OnlyMembersExecute
<1>1. Inv => OnlyMembersExecute
  BY DEF Inv, RelayTypeOK, MessageInv, FreshInv, CandidateInv, OnlyMembersExecute
<1> QED
  BY <1>1, Invariant, PTL

-----------------------------------------------------------------------------
(* Why Handle returns *)

(* The candidate Handle comes to next: the host, after all participants. *)
Upcoming(m, c) == \/ c \in due[m]
                  \/ due[m] = {} /\ hostDue[m] /\ c = host[about[m]]

(* A step of Handle on m, of the client it called or of Run, which shuts down
   the rpcClient of a client that is lost, can be taken.                   *)
HandleGoesOn ==
  \A m \in Message :
    /\ state[m] = "choose" =>
         \/ due[m] = {} /\ ~ hostDue[m]
         \/ \E c \in Client :
              Upcoming(m, c) /\ (~ Addressed(m, c) \/ c \notin killed \/ c \in gone)
    /\ Calling(m) => callee[m] \in Client \ gone \/ callee[m] \in killed
                                              \/ callee[m] \in gone

(* Hub.Handle never stands still between two candidates: a published session
   keeps its host, so the next candidate is a client, and one whose rpcClient
   is shut down is lost, so that calling it fails; a call that waits is
   answered by a client that is connected or failed by KILL.               *)
THEOREM HandleNeverStuck == RelaySpec => []HandleGoesOn
<1>1. ASSUME Inv, NEW m \in Message, state[m] = "choose", ~ (due[m] = {} /\ ~ hostDue[m])
      PROVE  \E c \in Client :
               Upcoming(m, c) /\ (~ Addressed(m, c) \/ c \notin killed \/ c \in gone)
  <2>1. killed \subseteq gone /\ host[about[m]] \in Client /\ due[m] \subseteq Client
    BY <1>1 DEF Inv, StoreInv, RelayTypeOK, MessageInv, CandidateInv, Under
  <2>2. PICK c \in Client : Upcoming(m, c)
    BY <1>1, <2>1 DEF Upcoming
  <2> QED
    BY <2>1, <2>2
<1>2. ASSUME Inv, NEW m \in Message, Calling(m)
      PROVE  callee[m] \in Client
  BY <1>2 DEF Inv, MessageInv, CandidateInv, Under, Calling
<1>3. Inv => HandleGoesOn
  BY <1>1, <1>2 DEF HandleGoesOn
<1> QED
  BY <1>3, Invariant, PTL

(* m has used up a candidate, or the call of one has got further. *)
Nearer(m) ==
  \/ due'[m] # due[m] \/ hostDue'[m] # hostDue[m]
  \/ <<state[m], state'[m]>> \in
       {<<"called", "executed">>, <<"called", "choose">>, <<"executed", "choose">>,
        <<"choose", "done">>}

(* Once the candidates are taken none is added, and what happens to m uses one
   up or finishes the call of one.                                         *)
StepsLeft ==
  [][\A m \in Message : Under(m) =>
       /\ due'[m] \subseteq due[m]
       /\ hostDue'[m] => hostDue[m]
       /\ <<state'[m], callee'[m], got'[m], reply'[m]>>
            # <<state[m], callee[m], got[m], reply[m]>> => Nearer(m)]_allVars

(* One message takes the step, or none does. *)
LEMMA OneSteps ==
  ASSUME Inv, RelayNext, NEW m \in Message, Under(m)
  PROVE  /\ due'[m] \subseteq due[m]
         /\ hostDue'[m] => hostDue[m]
         /\ <<state'[m], callee'[m], got'[m], reply'[m]>>
              # <<state[m], callee[m], got[m], reply[m]>> => Nearer(m)
<1> DEFINE Kept == /\ due'[m] = due[m] /\ hostDue'[m] = hostDue[m]
                   /\ state'[m] = state[m] /\ callee'[m] = callee[m]
                   /\ got'[m] = got[m] /\ reply'[m] = reply[m]
           Advances == /\ due'[m] \subseteq due[m]
                       /\ hostDue'[m] => hostDue[m]
                       /\ Nearer(m)
<1> USE DEF Inv, RelayTypeOK, Under
<1>1. ASSUME HubStep PROVE Kept
  BY <1>1 DEF HubStep, relayVars
<1>2. ASSUME NEW c \in Client, GetReady(c) \/ Kill(c) PROVE Kept
  BY <1>2 DEF GetReady, Kill
<1>3. ASSUME NEW n \in Message, NEW c \in Client, NEW t \in Client \cup {None},
             NEW s \in Session, Send(n, c, t, s)
      PROVE  Kept
  BY <1>3 DEF Send
<1>4. ASSUME NEW n \in Message, NotFound(n) \/ Choose(n)
      PROVE  Kept
  BY <1>4 DEF NotFound, Choose
<1>5. ASSUME NEW n \in Message, NEW c \in Client, Take(n, c)
      PROVE  IF n = m THEN /\ due'[m] \subseteq due[m]
                           /\ hostDue'[m] => hostDue[m]
                           /\ due'[m] # due[m] \/ hostDue'[m] # hostDue[m]
                      ELSE due'[m] = due[m] /\ hostDue'[m] = hostDue[m]
  BY <1>5 DEF Take
<1>6. ASSUME NEW n \in Message, NEW c \in Client,
             Skip(n, c) \/ Call(n, c) \/ CallFails(n, c)
      PROVE  Kept \/ Advances
  BY <1>5, <1>6 DEF Skip, Call, CallFails, Nearer
<1>7. ASSUME NEW n \in Message, Execute(n) \/ Answer(n) \/ Abort(n) \/ Return(n)
      PROVE  Kept \/ Advances
  BY <1>7 DEF Execute, Answer, Abort, Return, Nearer
<1>8. Kept \/ Advances
  <2> HIDE DEF Kept, Advances, Inv, RelayTypeOK, Under
  <2>1. ASSUME NEW n \in Message, Handle(n) \/ Remote(n) PROVE Kept \/ Advances
    BY <1>4, <1>6, <1>7, <2>1 DEF Handle, Remote
  <2> QED
    BY <1>1, <1>2, <1>3, <2>1 DEF RelayNext
<1> QED
  BY <1>8

(* Clients that join, move or are lost while Hub.Handle is at work give it no
   more candidates than it has taken, and every step uses one of them up or
   finishes its call: with HandleNeverStuck and fairness, HandleReturns.   *)
THEOREM HandleOnlyAdvances == RelaySpec => StepsLeft
<1>1. Inv /\ [RelayNext]_allVars =>
        [\A m \in Message : Under(m) =>
           /\ due'[m] \subseteq due[m]
           /\ hostDue'[m] => hostDue[m]
           /\ <<state'[m], callee'[m], got'[m], reply'[m]>>
                # <<state[m], callee[m], got[m], reply[m]>> => Nearer(m)]_allVars
  BY OneSteps
<1> QED
  BY <1>1, Invariant, PTL DEF RelaySpec, StepsLeft

=============================================================================
