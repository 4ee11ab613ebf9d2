-------------------------- MODULE ChatClientProofs --------------------------
(***************************************************************************)
(* Proofs about ChatClient, for any number of clients, sessions and        *)
(* overlapping refreshes.                                                  *)
(***************************************************************************)
EXTENDS ChatClient, TLAPS

(* Me's session has ended, or Me has: no answer means anything any more. *)
Lost == mine \notin sessions \/ Me \in gone \/ closed

Listed(c) == c \in participants[mine] \cup {host[mine]}

Join(c) == [kind |-> "MemberJoin", about |-> c]

(* The hub's store: who has no host yet is entered by one client only. *)
StoreInv ==
  /\ \A s \in sessions : host[s] \in Client
  /\ \A s \in Session : \A c \in participants[s] : host[s] \in Client
  /\ \A s \in Session : \A c, d \in Client :
       host[s] = None /\ session[c] = s /\ session[d] = s => c = d
  /\ MembersKnown

(* Before its request, the hub knows nothing of Me; afterwards Me has the
   session it asked for or none.                                           *)
MainInv ==
  /\ main = "start" =>
       /\ mine = None /\ session[Me] = None
       /\ notices = {}
       /\ \A s \in Session : Me \notin participants[s] /\ host[s] # Me
  /\ main # "start" => mine \in Session
  /\ asking \cup fetched # {} => main # "start"
  /\ settled \cup shown # {} => main # "start"
  /\ main = "joining" /\ session[Me] # None => Me \in participants[mine]
  /\ Ready \in asking \/ (\E f \in fetched : f.n = Ready)
       => main \in {"ready", "chatting"}
  /\ main \in {"ready", "chatting"} /\ session[Me] = mine /\ Me \notin gone
       => host[mine] # None

(* Only those the hub lists are ever known. *)
KnownInv ==
  /\ \A c \in Client :
       \/ roster[c] # "absent"
       \/ c \in settled \cup shown
       \/ \E f \in fetched : f.members[c] # "absent"
       => main # "start" /\ host[mine] # None /\ Listed(c)
  /\ \A c \in Client :
       \/ roster[c] = "named"
       \/ c \in settled \cup shown
       \/ \E f \in fetched : f.members[c] = "named"
       => session[c] # None

(* Who was settled is in every answer that is still to be applied. *)
SettledInv ==
  ~ Lost => \A c \in settled :
              roster[c] = "named" /\ \A f \in fetched : f.members[c] = "named"

(* Without an overlap there is one refresh at a time, and whoever was shown is
   in its answer.                                                          *)
SerialInv ==
  ~ overlapped =>
    /\ \A n, m \in asking : n = m
    /\ \A f, g \in fetched : f = g
    /\ asking = {} \/ fetched = {}
    /\ ~ Lost => \A c \in shown :
                   roster[c] = "named" /\ \A f \in fetched : f.members[c] = "named"

(* Whoever is in the session is known, or an answer that names it, or an
   event that will lead to one, is on its way.                             *)
AwaitInv ==
  ~ overlapped /\ ~ Over /\ main \in {"ready", "chatting"} =>
    \A c \in Client : session[c] = mine =>
      \/ roster[c] = "named" /\ \A f \in fetched : f.members[c] = "named"
      \/ asking # {}
      \/ \E f \in fetched : f.members[c] = "named"
      \/ c # Me /\ ([n |-> Join(c), s |-> mine] \in fans \/ Join(c) \in notices)

(* The inductive invariant. *)
Inv == /\ ChatTypeOK /\ StoreInv /\ MainInv /\ KnownInv /\ SettledInv
       /\ SerialInv /\ AwaitInv /\ PanicExplained

(* It holds before the client has asked for anything. *)
LEMMA InvInit == ChatInit => Inv
<1> SUFFICES ASSUME ChatInit PROVE Inv
  OBVIOUS
<1> USE MembershipAssumption, ChatAssumption DEF ChatInit, Init
<1>1. ChatTypeOK
  BY DEF ChatTypeOK, TypeOK, Roster, Nobody
<1>2. StoreInv /\ MainInv
  BY DEF StoreInv, MembersKnown, MainInv
<1>3. KnownInv /\ SettledInv /\ SerialInv /\ AwaitInv /\ PanicExplained
  BY DEF KnownInv, SettledInv, SerialInv, AwaitInv, PanicExplained, Nobody
<1> QED
  BY <1>1, <1>2, <1>3 DEF Inv

-----------------------------------------------------------------------------
(* The hub's steps *)

(* Types, whatever happens. *)
LEMMA TypeStep == ChatTypeOK /\ [ChatNext]_allVars => ChatTypeOK'
<1> SUFFICES ASSUME ChatTypeOK, [ChatNext]_allVars PROVE ChatTypeOK'
  OBVIOUS
<1> USE MembershipAssumption, ChatAssumption DEF ChatTypeOK, TypeOK, Roster, Notice
<1>1. ASSUME NEW c \in Client, HubStep(c) PROVE ChatTypeOK'
  BY <1>1 DEF HubStep, Lose, Publish, Add, chat
<1>2. ASSUME NEW c \in Client, NEW s \in Session, HubEnter(c, s) PROVE ChatTypeOK'
  BY <1>2 DEF HubEnter, Enter, chat
<1>3. ASSUME NEW c \in Client, Depart(c) PROVE ChatTypeOK'
  <2>1. departed' \subseteq gone' /\ UNCHANGED <<notices, chat>>
    BY <1>3 DEF Depart, End, vars
  <2>2. TypeOK'
    BY <1>3 DEF Depart, End, vars
  <2>3. fans' \subseteq [n : Notice, s : Session]
    BY <1>3 DEF Depart, End, vars
  <2> QED
    BY <2>1, <2>2, <2>3 DEF chat
<1>4. ASSUME NEW f \in fans, FanOut(f) PROVE ChatTypeOK'
  BY <1>4 DEF FanOut, chat, vars
<1>5. ASSUME NEW s \in Session, Request(s) PROVE ChatTypeOK'
  BY <1>5 DEF Request, vars
<1>6. ASSUME Entered PROVE ChatTypeOK'
  BY <1>6 DEF Entered, Ask, vars
<1>7. ASSUME NEW n \in notices, Receive(n) PROVE ChatTypeOK'
  BY <1>7 DEF Receive, Ask, vars
<1>8. ASSUME NEW n \in asking, Fetch(n) PROVE ChatTypeOK'
  BY <1>8 DEF Fetch, Members, Nobody, vars
<1>9. ASSUME NEW f \in fetched, Apply(f) PROVE ChatTypeOK'
  BY <1>9 DEF Apply, vars
<1>10. ASSUME NEW c \in Client, PrintName(c) \/ FindNil(c) PROVE ChatTypeOK'
  BY <1>10 DEF PrintName, FindNil, vars
<1>11. CASE UNCHANGED allVars
  BY <1>11 DEF allVars, vars, chat
<1> QED
  BY <1>1, <1>2, <1>3, <1>4, <1>5, <1>6, <1>7, <1>8, <1>9, <1>10, <1>11
     DEF ChatNext, HubSteps, ChatStep

(* The store: a step of the hub keeps it in order, and nothing else changes
   it.                                                                     *)
LEMMA StoreStep == ChatTypeOK /\ StoreInv /\ [ChatNext]_allVars => StoreInv'
<1> SUFFICES ASSUME ChatTypeOK, StoreInv, [ChatNext]_allVars PROVE StoreInv'
  OBVIOUS
<1> USE MembershipAssumption DEF ChatTypeOK, TypeOK, StoreInv, MembersKnown
<1>1. ASSUME NEW c \in Client, Lose(c) PROVE StoreInv'
  BY <1>1 DEF Lose
<1>2. ASSUME NEW c \in Client, NEW s \in Session, Publish(c, s) PROVE StoreInv'
  BY <1>2 DEF Publish
<1>3. ASSUME NEW c \in Client, NEW s \in Session, Add(c, s) PROVE StoreInv'
  BY <1>3 DEF Add
<1>4. ASSUME NEW c \in Client, NEW s \in Session, Enter(c, s) PROVE StoreInv'
  BY <1>4 DEF Enter
<1>5. ASSUME NEW s \in Session, End(s) PROVE StoreInv'
  BY <1>5 DEF End
<1>6. CASE UNCHANGED vars
  BY <1>6 DEF vars
<1>7. CASE HubSteps
  <2>1. ASSUME NEW c \in Client, Depart(c) PROVE StoreInv'
    BY <2>1, <1>5, <1>6 DEF Depart
  <2> QED
    BY <1>7, <2>1, <1>1, <1>2, <1>3, <1>4, <1>6 DEF HubSteps, HubStep, HubEnter, FanOut
<1>8. CASE ChatStep
  BY <1>8, <1>6 DEF ChatStep, Request, Entered, Receive, Ask, Fetch, Apply, PrintName, FindNil
<1> QED
  BY <1>6, <1>7, <1>8 DEF ChatNext, allVars

(* Me's request and what the hub knows of it. *)
LEMMA MainStep ==
  ChatTypeOK /\ StoreInv /\ MainInv /\ [ChatNext]_allVars => MainInv'
<1> SUFFICES ASSUME ChatTypeOK, StoreInv, MainInv, [ChatNext]_allVars PROVE MainInv'
  OBVIOUS
<1> USE MembershipAssumption, ChatAssumption DEF ChatTypeOK, TypeOK, StoreInv, MainInv
<1>1. ASSUME NEW c \in Client, HubStep(c) PROVE MainInv'
  BY <1>1 DEF HubStep, Lose, Publish, Add, chat
<1>2. ASSUME NEW c \in Client, NEW s \in Session, HubEnter(c, s) PROVE MainInv'
  BY <1>2 DEF HubEnter, Enter, chat
<1>3. ASSUME NEW c \in Client, Depart(c) PROVE MainInv'
  BY <1>3 DEF Depart, End, vars, chat
<1>4. ASSUME NEW f \in fans, FanOut(f) PROVE MainInv'
  BY <1>4 DEF FanOut, Audience, vars, chat
<1>5. ASSUME NEW s \in Session, Request(s) PROVE MainInv'
  BY <1>5 DEF Request, vars
<1>6. ASSUME Entered PROVE MainInv'
  BY <1>6 DEF Entered, Ask, vars
<1>7. ASSUME NEW n \in notices, Receive(n) PROVE MainInv'
  <2>1. n # Ready
    BY DEF Ready, Notice
  <2> QED
    BY <1>7, <2>1 DEF Receive, Ask, vars
<1>8. ASSUME NEW n \in asking, Fetch(n) PROVE MainInv'
  BY <1>8 DEF Fetch, vars
<1>9. ASSUME NEW f \in fetched, Apply(f) PROVE MainInv'
  BY <1>9 DEF Apply, vars
<1>10. ASSUME NEW c \in Client, PrintName(c) \/ FindNil(c) PROVE MainInv'
  BY <1>10 DEF PrintName, FindNil, vars
<1>11. CASE UNCHANGED allVars
  BY <1>11 DEF allVars, vars, chat
<1> QED
  BY <1>1, <1>2, <1>3, <1>4, <1>5, <1>6, <1>7, <1>8, <1>9, <1>10, <1>11
     DEF ChatNext, HubSteps, ChatStep

(* Only those whom the hub lists, and who have a name, are ever known. *)
LEMMA KnownStep ==
  ChatTypeOK /\ StoreInv /\ MainInv /\ KnownInv /\ [ChatNext]_allVars => KnownInv'
<1> SUFFICES ASSUME ChatTypeOK, StoreInv, MainInv, KnownInv, [ChatNext]_allVars
             PROVE KnownInv'
  OBVIOUS
<1> USE MembershipAssumption, ChatAssumption
    DEF ChatTypeOK, TypeOK, Roster, StoreInv, MainInv, KnownInv, Listed
<1>1. ASSUME NEW c \in Client, HubStep(c) PROVE KnownInv'
  BY <1>1 DEF HubStep, Lose, Publish, Add, chat
<1>2. ASSUME NEW c \in Client, NEW s \in Session, HubEnter(c, s) PROVE KnownInv'
  BY <1>2 DEF HubEnter, Enter, chat
<1>3. ASSUME NEW c \in Client, Depart(c) PROVE KnownInv'
  BY <1>3 DEF Depart, End, vars, chat
<1>4. ASSUME NEW f \in fans, FanOut(f) PROVE KnownInv'
  BY <1>4 DEF FanOut, vars, chat
<1>5. ASSUME NEW s \in Session, Request(s) PROVE KnownInv'
  BY <1>5 DEF Request, vars
<1>6. ASSUME Entered PROVE KnownInv'
  BY <1>6 DEF Entered, Ask, vars
<1>7. ASSUME NEW n \in notices, Receive(n) PROVE KnownInv'
  BY <1>7 DEF Receive, Ask, vars
<1>8. ASSUME NEW n \in asking, Fetch(n) PROVE KnownInv'
  BY <1>8 DEF Fetch, Members, Nobody, vars
<1>9. ASSUME NEW f \in fetched, Apply(f) PROVE KnownInv'
  BY <1>9 DEF Apply, vars
<1>10. ASSUME NEW c \in Client, PrintName(c) \/ FindNil(c) PROVE KnownInv'
  BY <1>10 DEF PrintName, FindNil, vars
<1>11. CASE UNCHANGED allVars
  BY <1>11 DEF allVars, vars, chat
<1> QED
  BY <1>1, <1>2, <1>3, <1>4, <1>5, <1>6, <1>7, <1>8, <1>9, <1>10, <1>11
     DEF ChatNext, HubSteps, ChatStep

(* Once the session has been published, its end is for good: a hub that goes
   on does not undo Lost.                                                  *)
LEMMA LostStable ==
  ASSUME ChatTypeOK, MainInv, HubSteps, main # "start", host[mine] # None
  PROVE  Lost => Lost'
<1> USE DEF ChatTypeOK, TypeOK, MainInv, Lost
<1>1. ASSUME NEW c \in Client, HubStep(c) PROVE Lost => Lost'
  BY <1>1 DEF HubStep, Lose, Publish, Add, chat
<1>2. ASSUME NEW c \in Client, NEW s \in Session, HubEnter(c, s) PROVE Lost => Lost'
  BY <1>2 DEF HubEnter, Enter, chat
<1>3. ASSUME NEW c \in Client, Depart(c) PROVE Lost => Lost'
  BY <1>3 DEF Depart, End, vars, chat
<1>4. ASSUME NEW f \in fans, FanOut(f) PROVE Lost => Lost'
  BY <1>4 DEF FanOut, vars, chat
<1> QED
  BY <1>1, <1>2, <1>3, <1>4, HubSteps DEF HubSteps

(* An answer of the live session names everybody who is listed and named. *)
LEMMA AnswerNames ==
  ASSUME ChatTypeOK, ~ Lost, NEW c \in Client, Listed(c), session[c] # None,
         NEW n \in asking, Fetch(n)
  PROVE  \A f \in fetched' : f \notin fetched => f.members[c] = "named"
BY DEF Fetch, Members, Lost, Listed

(* The settled stay known, and so do the shown without an overlap. *)
LEMMA SettledStep ==
  ChatTypeOK /\ StoreInv /\ MainInv /\ KnownInv /\ SettledInv /\ [ChatNext]_allVars
    => SettledInv'
<1> SUFFICES ASSUME ChatTypeOK, StoreInv, MainInv, KnownInv, SettledInv,
                    [ChatNext]_allVars
             PROVE  SettledInv'
  OBVIOUS
<1> USE DEF SettledInv
<1>1. CASE HubSteps
  <2>1. UNCHANGED chat
    BY <1>1 DEF HubSteps, HubStep, HubEnter, Depart, FanOut
  <2>2. CASE settled = {}
    BY <2>1, <2>2 DEF chat
  <2>3. CASE settled # {}
    <3>1. main # "start" /\ host[mine] # None
      BY <2>3 DEF KnownInv, ChatTypeOK
    <3>2. Lost => Lost'
      BY <1>1, <3>1, LostStable
    <3> QED
      BY <2>1, <3>2 DEF chat
  <2> QED
    BY <2>2, <2>3
<1>2. ASSUME NEW s \in Session, Request(s) PROVE SettledInv'
  BY <1>2 DEF Request, MainInv
<1>3. ASSUME Entered PROVE SettledInv'
  BY <1>3 DEF Entered, Ask, vars, Lost
<1>4. ASSUME NEW n \in notices, Receive(n) PROVE SettledInv'
  BY <1>4 DEF Receive, Ask, vars, Lost
<1>5. ASSUME NEW n \in asking, Fetch(n) PROVE SettledInv'
  <2>1. Lost' = Lost /\ UNCHANGED <<settled, roster>>
    BY <1>5 DEF Fetch, Lost, vars
  <2>2. SUFFICES ASSUME ~ Lost, NEW c \in settled
                 PROVE  roster[c] = "named" /\ \A f \in fetched' : f.members[c] = "named"
    BY <2>1
  <2>3. c \in Client /\ Listed(c) /\ session[c] # None
    BY DEF KnownInv, ChatTypeOK
  <2> QED
    BY <1>5, <2>2, <2>3, AnswerNames
<1>6. ASSUME NEW f \in fetched, Apply(f) PROVE SettledInv'
  BY <1>6 DEF Apply, vars, Lost
<1>7. ASSUME NEW c \in Client, PrintName(c) \/ FindNil(c) PROVE SettledInv'
  BY <1>7 DEF PrintName, FindNil, vars, Lost
<1>8. CASE UNCHANGED allVars
  BY <1>8 DEF allVars, vars, chat, Lost
<1> QED
  BY <1>1, <1>2, <1>3, <1>4, <1>5, <1>6, <1>7, <1>8 DEF ChatNext, ChatStep

(* As long as no refresh met another there is one at a time. *)
LEMMA SerialStep ==
  ChatTypeOK /\ StoreInv /\ MainInv /\ KnownInv /\ SerialInv /\ [ChatNext]_allVars
    => SerialInv'
<1> SUFFICES ASSUME ChatTypeOK, StoreInv, MainInv, KnownInv, SerialInv,
                    [ChatNext]_allVars
             PROVE  SerialInv'
  OBVIOUS
<1> USE DEF SerialInv
<1>1. CASE HubSteps
  <2>1. UNCHANGED chat
    BY <1>1 DEF HubSteps, HubStep, HubEnter, Depart, FanOut
  <2>2. CASE shown = {}
    BY <2>1, <2>2 DEF chat
  <2>3. CASE shown # {}
    <3>1. main # "start" /\ host[mine] # None
      BY <2>3 DEF KnownInv, ChatTypeOK
    <3>2. Lost => Lost'
      BY <1>1, <3>1, LostStable
    <3> QED
      BY <2>1, <3>2 DEF chat
  <2> QED
    BY <2>2, <2>3
<1>2. ASSUME NEW s \in Session, Request(s) PROVE SerialInv'
  BY <1>2 DEF Request, MainInv
<1>3. ASSUME Entered PROVE SerialInv'
  BY <1>3 DEF Entered, Ask, vars, Lost
<1>4. ASSUME NEW n \in notices, Receive(n) PROVE SerialInv'
  BY <1>4 DEF Receive, Ask, vars, Lost
<1>5. ASSUME NEW n \in asking, Fetch(n) PROVE SerialInv'
  <2>1. Lost' = Lost /\ UNCHANGED <<shown, roster, overlapped>>
    BY <1>5 DEF Fetch, Lost, vars
  <2>2. SUFFICES ASSUME ~ overlapped PROVE SerialInv'
    BY <2>1
  <2>3. asking' = {} /\ fetched = {} /\ \A f, g \in fetched' : f = g
    BY <1>5, <2>2 DEF Fetch
  <2>4. ASSUME ~ Lost, NEW c \in shown
        PROVE  roster[c] = "named" /\ \A f \in fetched' : f.members[c] = "named"
    <3>1. c \in Client /\ Listed(c) /\ session[c] # None
      BY DEF KnownInv, ChatTypeOK
    <3> QED
      BY <1>5, <2>2, <2>3, <2>4, <3>1, AnswerNames
  <2> QED
    BY <2>1, <2>3, <2>4
<1>6. ASSUME NEW f \in fetched, Apply(f) PROVE SerialInv'
  BY <1>6 DEF Apply, vars, Lost
<1>7. ASSUME NEW c \in Client, PrintName(c) \/ FindNil(c) PROVE SerialInv'
  BY <1>7 DEF PrintName, FindNil, vars, Lost
<1>8. CASE UNCHANGED allVars
  BY <1>8 DEF allVars, vars, chat, Lost
<1> QED
  BY <1>1, <1>2, <1>3, <1>4, <1>5, <1>6, <1>7, <1>8 DEF ChatNext, ChatStep

(* Whoever enters the session is announced to Me, which the hub knows to be
   in it; the notice brings a refresh, and its answer names everybody.     *)
LEMMA AwaitStep ==
  ChatTypeOK /\ StoreInv /\ MainInv /\ SerialInv /\ AwaitInv /\ [ChatNext]_allVars
    => AwaitInv'
<1> SUFFICES ASSUME ChatTypeOK, StoreInv, MainInv, SerialInv, AwaitInv,
                    [ChatNext]_allVars
             PROVE  AwaitInv'
  OBVIOUS
<1> USE MembershipAssumption, ChatAssumption DEF AwaitInv, Over, ChatTypeOK, TypeOK
<1>1. ASSUME NEW c \in Client, HubStep(c) PROVE AwaitInv'
  BY <1>1 DEF HubStep, Lose, Publish, Add, chat, MainInv
<1>2. ASSUME NEW c \in Client, NEW s \in Session, HubEnter(c, s) PROVE AwaitInv'
  <2>1. UNCHANGED <<chat, notices, gone, sessions, host>> /\ fans \subseteq fans'
    BY <1>2 DEF HubEnter, Enter
  <2>2. SUFFICES ASSUME ~ overlapped, ~ Over', main \in {"ready", "chatting"},
                        NEW d \in Client, session'[d] = mine
                 PROVE  \/ roster[d] = "named" /\ \A f \in fetched : f.members[d] = "named"
                        \/ asking # {}
                        \/ \E f \in fetched : f.members[d] = "named"
                        \/ d # Me /\ ([n |-> Join(d), s |-> mine] \in fans'
                                      \/ Join(d) \in notices)
    BY <2>1 DEF chat, Join
  <2>3. c # Me /\ session' = [session EXCEPT ![c] = s]
    BY <1>2, <2>2 DEF HubEnter, Enter
  <2>4. ~ Over /\ session[Me] = mine
    BY <2>1, <2>2, <2>3 DEF chat
  <2>5. CASE d # c
    BY <2>1, <2>2, <2>3, <2>4, <2>5
  <2>6. CASE d = c
    <3>1. s = mine /\ host[mine] # None
      BY <2>2, <2>3, <2>4, <2>6 DEF MainInv
    <3>2. c \in participants[s]
      BY <1>2, <2>3, <2>4, <3>1 DEF HubEnter, Enter
    <3> QED
      BY <1>2, <2>3, <2>6, <3>1, <3>2 DEF HubEnter, Join
  <2> QED
    BY <2>5, <2>6
<1>3. ASSUME NEW c \in Client, Depart(c) PROVE AwaitInv'
  <2>1. UNCHANGED <<notices, chat, gone, session>> /\ sessions' \subseteq sessions
        /\ fans \subseteq fans'
    BY <1>3 DEF Depart, End, vars
  <2> QED
    BY <2>1 DEF chat
<1>4. ASSUME NEW f \in fans, FanOut(f) PROVE AwaitInv'
  <2>1. UNCHANGED <<vars, chat>>
    BY <1>4 DEF FanOut
  <2>2. SUFFICES ASSUME ~ overlapped, ~ Over, main \in {"ready", "chatting"},
                        NEW d \in Client \ {Me}, session[d] = mine,
                        [n |-> Join(d), s |-> mine] \in fans \/ Join(d) \in notices
                 PROVE  [n |-> Join(d), s |-> mine] \in fans' \/ Join(d) \in notices'
    BY <2>1 DEF chat, vars
  <2>3. Me \in participants[mine] \cup {host[mine]}
    BY <2>2 DEF StoreInv, MembersKnown, MainInv
  <2> QED
    BY <1>4, <2>2, <2>3 DEF FanOut, Audience, Join
<1>5. ASSUME NEW s \in Session, Request(s) PROVE AwaitInv'
  BY <1>5 DEF Request
<1>6. ASSUME Entered PROVE AwaitInv'
  BY <1>6 DEF Entered, Ask
<1>7. ASSUME NEW n \in notices, Receive(n) PROVE AwaitInv'
  BY <1>7 DEF Receive, Ask
<1>8. ASSUME NEW n \in asking, Fetch(n) PROVE AwaitInv'
  <2>1. SUFFICES ASSUME ~ Over, NEW c \in Client, session[c] = mine
                 PROVE  \E f \in fetched' : f.members[c] = "named"
    BY <1>8 DEF Fetch, vars
  <2>2. mine \in sessions /\ c \in participants[mine] \cup {host[mine]}
    BY <2>1 DEF StoreInv, MembersKnown
  <2>3. Members(mine)[c] = "named"
    BY <2>1, <2>2 DEF Members
  <2> DEFINE answer == [n |-> n, members |-> Members(mine)]
  <2>4. answer \in fetched'
    BY <1>8, <2>1 DEF Fetch
  <2>5. answer.members = Members(mine)
    OBVIOUS
  <2> HIDE DEF answer
  <2> QED
    BY <2>3, <2>4, <2>5, Zenon
<1>9. ASSUME NEW f \in fetched, Apply(f) PROVE AwaitInv'
  <2>1. UNCHANGED <<vars, fans, notices, mine, asking, overlapped>>
        /\ (~ closed' => ~ closed) /\ roster' = f.members /\ fetched' = fetched \ {f}
    BY <1>9 DEF Apply
  <2>2. main' \in {"ready", "chatting"} => main \in {"ready", "chatting"}
    BY <1>9 DEF Apply, MainInv
  <2>3. ~ overlapped => asking = {} /\ fetched = {f} /\ fetched' = {}
    BY <2>1 DEF SerialInv
  <2> QED
    BY <2>1, <2>2, <2>3 DEF vars
<1>10. ASSUME NEW c \in Client, PrintName(c) \/ FindNil(c) PROVE AwaitInv'
  BY <1>10 DEF PrintName, FindNil, vars
<1>11. CASE UNCHANGED allVars
  BY <1>11 DEF allVars, vars, chat
<1> QED
  BY <1>1, <1>2, <1>3, <1>4, <1>5, <1>6, <1>7, <1>8, <1>9, <1>10, <1>11
     DEF ChatNext, HubSteps, ChatStep

(* Me runs until it panics: over a name that was shown, which SerialInv keeps
   in participants, or over one that is nil.                               *)
LEMMA PanicStep ==
  ChatTypeOK /\ SerialInv /\ PanicExplained /\ [ChatNext]_allVars => PanicExplained'
<1> SUFFICES ASSUME ChatTypeOK, SerialInv, PanicExplained, [ChatNext]_allVars
             PROVE  PanicExplained'
  OBVIOUS
<1> USE DEF PanicExplained
<1>1. ASSUME NEW c \in Client, PrintName(c) PROVE PanicExplained'
  <2>1. overlapped \/ Lost
    BY <1>1 DEF PrintName, SerialInv
  <2> QED
    BY <1>1, <2>1 DEF PrintName, Lost, Over, vars
<1>2. ASSUME NEW c \in Client, FindNil(c) PROVE PanicExplained'
  BY <1>2 DEF FindNil
<1>3. CASE HubSteps /\ ~ panicked
  <2>1. UNCHANGED chat
    BY <1>3 DEF HubSteps, HubStep, HubEnter, Depart, FanOut
  <2> QED
    BY <1>3, <2>1 DEF chat
<1>4. CASE UNCHANGED allVars
  BY <1>4 DEF allVars, vars, chat, Over
<1> QED
  BY <1>1, <1>2, <1>3, <1>4
     DEF ChatNext, ChatStep, Request, Entered, Receive, Ask, Fetch, Apply

(* The invariant is inductive, so every state of the client satisfies it. *)
LEMMA InvAlways == ChatSpec => []Inv
<1>1. Inv /\ [ChatNext]_allVars => Inv'
  BY TypeStep, StoreStep, MainStep, KnownStep, SettledStep, SerialStep, AwaitStep,
     PanicStep DEF Inv
<1> QED
  BY InvInit, <1>1, PTL DEF ChatSpec

-----------------------------------------------------------------------------

(* Every variable of the chat client and of the hub's store keeps its type,
   whatever the hub and the client's goroutines do.                        *)
THEOREM TypeCorrect == ChatSpec => []ChatTypeOK
<1>1. Inv => ChatTypeOK
  BY DEF Inv
<1> QED
  BY InvAlways, <1>1, PTL

(* With any number of clients that come and go, and any order in which the
   chat client's goroutines read and replace participants: nobody who was
   known at a moment without a refresh is forgotten while the session lasts. *)
THEOREM NobodyForgotten == ChatSpec => []KnownForGood
<1>1. Inv => KnownForGood
  BY DEF Inv, SettledInv, KnownForGood, Lost, Over
<1> QED
  BY InvAlways, <1>1, PTL

(* If no two refreshes overlapped, a chat client at rest names everybody who
   is in its session.                                                      *)
THEOREM EverybodyKnown == ChatSpec => []Converged
<1>1. Inv => Converged
  BY DEF Inv, AwaitInv, Converged, Quiet
<1> QED
  BY InvAlways, <1>1, PTL

(* If no two refreshes overlapped and the session lasts, OnMessage and
   onSessionChange panic over a participant without a name only.           *)
THEOREM PanicsAreExplained == ChatSpec => []PanicExplained
<1>1. Inv => PanicExplained
  BY DEF Inv
<1> QED
  BY InvAlways, <1>1, PTL

-----------------------------------------------------------------------------
(* Why the end of the session closes the client *)

(* A notice Me is called with becomes a refresh, the refresh gets an answer,
   and the answer to a SessionClosed closes the client for good
   (chat-client.go:111-125).                                               *)
CarriesNotices ==
  /\ \A n \in Notice :
       /\ n \in notices => n \in notices' \cup asking'
       /\ n \in asking => n \in asking' \/ \E f \in fetched' : f.n = n
       /\ (\E f \in fetched : f.n = n) =>
            \/ \E f \in fetched' : f.n = n
            \/ n.kind = "SessionClosed" => closed'
  /\ closed => closed'

NoticesCarried == [][CarriesNotices]_allVars

(* The goroutines of onSessionChange drop no notice and none of their answers,
   however they overlap with each other and with onReady: with fairness, a
   client that hears of the end of its session closes (EndCloses).         *)
THEOREM NoNoticeDropped == ChatSpec => NoticesCarried
<1>1. ASSUME ChatNext PROVE CarriesNotices
  <2> USE DEF CarriesNotices, chat, vars
  <2>1. ASSUME NEW c \in Client, HubStep(c) \/ Depart(c) PROVE CarriesNotices
    BY <2>1 DEF HubStep, Depart
  <2>2. ASSUME NEW c \in Client, NEW s \in Session, HubEnter(c, s) PROVE CarriesNotices
    BY <2>2 DEF HubEnter
  <2>3. ASSUME NEW f \in fans, FanOut(f) PROVE CarriesNotices
    BY <2>3 DEF FanOut
  <2>4. ASSUME NEW s \in Session, Request(s) PROVE CarriesNotices
    BY <2>4 DEF Request
  <2>5. CASE Entered
    BY <2>5 DEF Entered, Ask
  <2>6. ASSUME NEW n \in notices, Receive(n) PROVE CarriesNotices
    BY <2>6 DEF Receive, Ask
  <2>7. ASSUME NEW n \in asking, Fetch(n) PROVE CarriesNotices
    <3>1. PICK m : fetched' = fetched \cup {[n |-> n, members |-> m]}
      BY <2>7 DEF Fetch
    <3> DEFINE answer == [n |-> n, members |-> m]
    <3>2. answer.n = n /\ answer \in fetched' /\ fetched \subseteq fetched'
      BY <3>1
    <3>3. asking' = asking \ {n} /\ UNCHANGED <<notices, closed>>
      BY <2>7 DEF Fetch
    <3> HIDE DEF answer
    <3> QED
      BY <3>2, <3>3
  <2>8. ASSUME NEW f \in fetched, Apply(f) PROVE CarriesNotices
    BY <2>8 DEF Apply
  <2>9. ASSUME NEW c \in Client, PrintName(c) \/ FindNil(c) PROVE CarriesNotices
    BY <2>9 DEF PrintName, FindNil
  <2> QED
    BY <1>1, <2>1, <2>2, <2>3, <2>4, <2>5, <2>6, <2>7, <2>8, <2>9
       DEF ChatNext, HubSteps, ChatStep
<1> QED
  BY <1>1, PTL DEF ChatSpec, NoticesCarried

=============================================================================
