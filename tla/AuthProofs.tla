----------------------------- MODULE AuthProofs -----------------------------
(***************************************************************************)
(* Proofs about users and their sessions, for every number of sessions,    *)
(* and whatever the file of users holds; and about the remotes that        *)
(* DecodeRemote answers, whatever their hosts, ports and protocols.        *)
(***************************************************************************)
EXTENDS Auth, TLAPS, SequenceTheorems

-----------------------------------------------------------------------------
(* The inductive invariant.  It excepts the sessions that met an empty     *)
(* index during their handshake, as the properties do.                     *)

(* u is who the client of s said it was, and knew the password.            *)
Identified(s, u) == u \in User /\ u.name = login[s].name /\ u.pass = login[s].pass

(* A user is in the index under its own name.                              *)
IndexNames == \A x \in Name : users[x] # NoUser => users[x].name = x

(* From the callback to the lookup the table has the user, and from then   *)
(* on the session does.                                                    *)
TableHolds ==
    \A s \in Session :
        step[s] \in {"lookup", "take"} /\ s \notin opened => Identified(s, table[s])

UserHeld ==
    \A s \in Session :
        step[s] \in {"config", "admitted"} /\ s \notin opened => Identified(s, user[s])

LastAllowed ==
    \A s \in Session :
        step[s] = "admitted" /\ s \notin opened =>
            \A addr \in wanted[s] : HasAccess(user[s], addr)

AInv ==
    /\ TypeOK
    /\ IndexNames
    /\ TableHolds
    /\ UserHeld
    /\ LastAllowed
    /\ TableEmptied
    /\ IndexOfOneFile

(* Nobody has logged in, and nothing is loaded.                            *)
LEMMA AuthInit == Init => AInv
PROOF
  <1> SUFFICES ASSUME Init PROVE AInv
    OBVIOUS
  <1> USE DEF Init, NobodyThere
  <1>1. TypeOK
    <2>1. users \in Users
      BY DEF Users
    <2>2. /\ step \in [Session -> {"idle"}]
          /\ login \in [Session -> [name : Name, pass : Pass]]
          /\ table \in [Session -> User \cup {NoUser}]
          /\ user \in [Session -> User \cup {NoUser}]
          /\ wanted \in [Session -> SUBSET Addr]
      OBVIOUS
    <2>3. /\ file \in Content /\ read = NoContent /\ loaded = {} /\ opened = {}
          /\ boot \in {"load", "auth"}
      OBVIOUS
    <2>4. event \in BOOLEAN /\ watched \in BOOLEAN
      OBVIOUS
    <2> QED
      BY <2>1, <2>2, <2>3, <2>4 DEF TypeOK
  <1>2. IndexNames /\ TableHolds /\ UserHeld /\ LastAllowed /\ TableEmptied
    BY DEF IndexNames, TableHolds, UserHeld, LastAllowed, TableEmptied
  <1>3. IndexOfOneFile
    <2>1. users \in MapsOf(loaded)
      BY DEF MapsOf, Users
    <2> QED
      BY <2>1 DEF IndexOfOneFile
  <1> QED
    BY <1>1, <1>2, <1>3 DEF AInv

(* A load makes an index of the file it read, under the names there.       *)
LEMMA LoadedIndex ==
    ASSUME NEW S \in Content, NEW f \in MapsOf(S)
    PROVE  f \in Users /\ \A x \in Name : f[x] # NoUser => f[x].name = x
PROOF
  BY ContentAssumption DEF MapsOf, Users

(* No session is taken from the exception again.                           *)
LEMMA OpenedGrows ==
    ASSUME NoteEmpty, opened \subseteq Session
    PROVE  opened \subseteq opened' /\ opened' \subseteq Session
PROOF
  BY DEF NoteEmpty

(* A change of the index, with no step of a session, keeps what is known   *)
(* of the sessions.                                                        *)
LEMMA IndexKeepsSessions ==
    ASSUME AInv, UNCHANGED sessionVars, opened \subseteq opened'
    PROVE  TableHolds' /\ UserHeld' /\ LastAllowed' /\ TableEmptied'
PROOF
  BY DEF AInv, sessionVars, TableHolds, UserHeld, LastAllowed, TableEmptied, Identified

(* Starting the server, and the file of users.                             *)
LEMMA IndexStep ==
    ASSUME AInv, Boot \/ WriteFile \/ ReplaceFile \/ ReloadRead \/ ReloadSwap
    PROVE  AInv'
PROOF
  <1>0. /\ TypeOK /\ IndexNames /\ IndexOfOneFile /\ opened \subseteq Session
    BY DEF AInv, TypeOK
  <1>1. UNCHANGED sessionVars /\ opened \subseteq opened' /\ opened' \subseteq Session
    BY <1>0, OpenedGrows
       DEF Boot, BootLoad, BootWatch, BootAuth, WriteFile, ReplaceFile, ReloadRead,
           ReloadSwap
  <1>2. TableHolds' /\ UserHeld' /\ LastAllowed' /\ TableEmptied'
    BY <1>1, IndexKeepsSessions
  <1>3. /\ step' \in [Session -> {"idle", "password", "get", "lookup", "take", "config",
                                  "admitted", "failed", "panicked"}]
        /\ login' \in [Session -> [name : Name, pass : Pass]]
        /\ table' \in [Session -> User \cup {NoUser}]
        /\ user' \in [Session -> User \cup {NoUser}]
        /\ wanted' \in [Session -> SUBSET Addr]
        /\ opened' \subseteq Session
    BY <1>0, <1>1 DEF TypeOK, sessionVars
  <1>4. event' \in BOOLEAN /\ watched' \in BOOLEAN
    BY <1>0, Zenon
       DEF TypeOK, Boot, BootLoad, BootWatch, BootAuth, WriteFile, ReplaceFile, ReloadRead,
           ReloadSwap
  <1>5. ASSUME NEW S \in Content, users' \in MapsOf(S), loaded' = S
        PROVE  users' \in Users /\ IndexNames' /\ IndexOfOneFile'
    BY <1>5, LoadedIndex DEF IndexNames, IndexOfOneFile
  <1>6. CASE BootLoad
    <2>1. file \in Content
      BY <1>0, <1>6 DEF BootLoad, TypeOK
    <2>2. users' \in Users /\ IndexNames' /\ IndexOfOneFile'
      BY <1>5, <1>6, <2>1 DEF BootLoad
    <2>3. /\ file' = file /\ read' = read /\ loaded' = file /\ boot' = "watch"
      BY <1>6 DEF BootLoad
    <2>4. TypeOK'
      BY <1>0, <1>3, <1>4, <2>1, <2>2, <2>3 DEF TypeOK
    <2> QED
      BY <1>2, <2>2, <2>4 DEF AInv
  <1>7. CASE ReloadSwap
    <2>1. read \in Content
      BY <1>0, <1>7 DEF ReloadSwap, TypeOK
    <2>2. users' \in Users /\ IndexNames' /\ IndexOfOneFile'
      BY <1>5, <1>7, <2>1 DEF ReloadSwap
    <2>3. /\ file' = file /\ read' = NoContent /\ loaded' = read /\ boot' = boot
      BY <1>7 DEF ReloadSwap
    <2>4. TypeOK'
      BY <1>0, <1>3, <1>4, <2>1, <2>2, <2>3 DEF TypeOK
    <2> QED
      BY <1>2, <2>2, <2>4 DEF AInv
  <1>8. CASE BootAuth
    <2>1. /\ users' = IF AuthUser = NoUser THEN users
                      ELSE [users EXCEPT ![AuthUser.name] = AuthUser]
          /\ file' = file /\ read' = read /\ loaded' = loaded /\ boot' = "up"
      BY <1>8 DEF BootAuth
    <2>2. AuthUser # NoUser => AuthUser \in User /\ AuthUser.name \in Name
      BY UserAssumption DEF Name
    <2>3. users' \in Users /\ IndexNames'
      BY <1>0, <2>1, <2>2 DEF TypeOK, Users, IndexNames
    <2>4. IndexOfOneFile'
      <3>1. PICK f \in MapsOf(loaded) :
                \A x \in Name : \/ users[x] = f[x]
                                \/ AuthUser # NoUser /\ users[x] = AuthUser
        BY <1>0 DEF IndexOfOneFile
      <3>2. \A x \in Name : users'[x] = users[x] \/ (AuthUser # NoUser /\ users'[x] = AuthUser)
        BY <1>0, <2>1, <2>2 DEF TypeOK, Users
      <3>3. f \in MapsOf(loaded')
        BY <2>1
      <3> QED
        BY <3>1, <3>2, <3>3 DEF IndexOfOneFile
    <2>5. TypeOK'
      BY <1>0, <1>3, <1>4, <2>1, <2>3 DEF TypeOK
    <2> QED
      BY <1>2, <2>3, <2>4, <2>5 DEF AInv
  <1>9. CASE BootWatch \/ WriteFile \/ ReplaceFile \/ ReloadRead
    <2>1. /\ users' = users /\ loaded' = loaded
          /\ file' \in Content \cup {Malformed}
          /\ read' \in Content \cup {NoContent}
          /\ boot' \in {"load", "watch", "auth", "up"}
      BY <1>0, <1>9 DEF BootWatch, WriteFile, ReplaceFile, ReloadRead, TypeOK
    <2>2. IndexNames' /\ IndexOfOneFile'
      BY <1>0, <2>1 DEF IndexNames, IndexOfOneFile
    <2>3. TypeOK'
      BY <1>0, <1>3, <1>4, <2>1 DEF TypeOK
    <2> QED
      BY <1>2, <2>2, <2>3 DEF AInv
  <1> QED
    BY <1>6, <1>7, <1>8, <1>9 DEF Boot

(* The steps of a session.                                                 *)
LEMMA SessionKeeps ==
    ASSUME AInv, NEW s \in Session, SessionStep(s)
    PROVE  AInv'
PROOF
  <1> USE DEF sessionVars, indexVars, GoTo
  <1>0. /\ TypeOK /\ IndexNames /\ TableHolds /\ UserHeld /\ LastAllowed
        /\ TableEmptied /\ IndexOfOneFile /\ opened \subseteq Session
    BY DEF AInv, TypeOK
  <1>1. UNCHANGED <<indexVars, login>>
    BY DEF SessionStep, Connect, AuthEnabled, AuthUserFound, AuthFails, HandshakeLost,
           Lookup, Take, CheckRemote
  <1>2. opened \subseteq opened' /\ opened' \subseteq Session
    BY <1>0, OpenedGrows
       DEF SessionStep, Connect, AuthEnabled, AuthUserFound, AuthFails, HandshakeLost,
           Lookup, Take, CheckRemote
  <1>3. IndexNames' /\ IndexOfOneFile'
    BY <1>0, <1>1 DEF IndexNames, IndexOfOneFile
  <1>4. users[login[s].name] \in User \cup {NoUser}
        /\ login[s].name \in Name
    BY <1>0 DEF TypeOK, Users
  <1>5. ASSUME Empty(users), step[s] \in {"password", "get", "lookup", "take"}, NoteEmpty
        PROVE  s \in opened'
    BY <1>1, <1>5 DEF NoteEmpty, Handshaking, Empty, NobodyThere
  <1>6. /\ step' \in [Session -> {"idle", "password", "get", "lookup", "take", "config",
                                  "admitted", "failed", "panicked"}]
        /\ table' \in [Session -> User \cup {NoUser}]
        /\ user' \in [Session -> User \cup {NoUser}]
        /\ wanted' \in [Session -> SUBSET Addr]
    <2> USE <1>0 DEF TypeOK, SessionStep, Connect, AuthEnabled, AuthUserFound, AuthFails,
                     HandshakeLost, Lookup, Take, CheckRemote
    <2>1. step' \in [Session -> {"idle", "password", "get", "lookup", "take", "config",
                                 "admitted", "failed", "panicked"}]
      OBVIOUS
    <2>2. table' \in [Session -> User \cup {NoUser}]
      BY <1>4
    <2>3. user' \in [Session -> User \cup {NoUser}]
      OBVIOUS
    <2>4. wanted' \in [Session -> SUBSET Addr]
      OBVIOUS
    <2> QED
      BY <2>1, <2>2, <2>3, <2>4
  <1>7. TypeOK'
    <2>1. event' \in BOOLEAN /\ watched' \in BOOLEAN
      BY <1>0, <1>1, Zenon DEF TypeOK
    <2> QED
      BY <1>0, <1>1, <1>2, <1>6, <2>1 DEF TypeOK
  <1> USE DEF TypeOK, TableHolds, UserHeld, LastAllowed, TableEmptied, Identified
  <1>8. CASE Connect(s) \/ AuthFails(s) \/ HandshakeLost(s)
    BY <1>0, <1>1, <1>2, <1>3, <1>7, <1>8
       DEF Connect, AuthFails, HandshakeLost, AInv
  <1>9. CASE AuthEnabled(s)
    BY <1>0, <1>1, <1>2, <1>3, <1>5, <1>7, <1>9 DEF AuthEnabled, AInv
  <1>10. CASE AuthUserFound(s)
    <2>1. LET u == users[login[s].name]
          IN  u \in User /\ u.name = login[s].name /\ u.pass = login[s].pass
              /\ table' = [table EXCEPT ![s] = u]
      BY <1>0, <1>4, <1>10 DEF AuthUserFound, IndexNames
    <2> QED
      BY <1>0, <1>1, <1>2, <1>3, <1>7, <1>10, <2>1 DEF AuthUserFound, AInv
  <1>11. CASE Lookup(s)
    BY <1>0, <1>1, <1>2, <1>3, <1>5, <1>7, <1>11 DEF Lookup, AInv
  <1>12. CASE Take(s)
    BY <1>0, <1>1, <1>2, <1>3, <1>7, <1>12, UserAssumption DEF Take, AInv
  <1>13. CASE CheckRemote(s)
    BY <1>0, <1>1, <1>2, <1>3, <1>7, <1>13, UserAssumption DEF CheckRemote, AInv
  <1> QED
    BY <1>8, <1>9, <1>10, <1>11, <1>12, <1>13 DEF SessionStep

(* The invariant holds throughout.                                         *)
LEMMA AuthInvariant == Spec => []AInv
PROOF
  <1>1. AInv /\ [Next]_vars => AInv'
    <2> SUFFICES ASSUME AInv, [Next]_vars PROVE AInv'
      OBVIOUS
    <2>1. CASE UNCHANGED vars
      BY <2>1
         DEF vars, indexVars, sessionVars, AInv, TypeOK, IndexNames, TableHolds, UserHeld,
             LastAllowed, TableEmptied, IndexOfOneFile, Identified
    <2> QED
      BY <2>1, IndexStep, SessionKeeps DEF Next
  <1> QED
    BY <1>1, AuthInit, PTL DEF Spec

(* The users, the file and the sessions are well formed.                   *)
THEOREM AuthTypeCorrect == Spec => []TypeOK
PROOF
  <1>1. AInv => TypeOK
    BY DEF AInv
  <1> QED
    BY <1>1, AuthInvariant, PTL

(* A session that is past its lookup has left nothing in Server.sessions.  *)
THEOREM TableAlwaysEmptied == Spec => []TableEmptied
PROOF
  <1>1. AInv => TableEmptied
    BY DEF AInv
  <1> QED
    BY <1>1, AuthInvariant, PTL

(* A reload (users.go) never leaves users of two files in the index.       *)
THEOREM IndexAlwaysOfOneFile == Spec => []IndexOfOneFile
PROOF
  <1>1. AInv => IndexOfOneFile
    BY DEF AInv
  <1> QED
    BY <1>1, AuthInvariant, PTL

-----------------------------------------------------------------------------
(* What is true of a remote while its parts are taken.                     *)
Partial(r) ==
    /\ r \in Record
    /\ r.socks => r.remoteHost = "" /\ r.remotePort = ""
    /\ ~r.socks /\ r.remotePort = "" =>
           /\ r.remoteHost = "" /\ r.localHost = "" /\ r.localPort = ""
           /\ r.remoteProto = ""
    /\ ~r.socks /\ r.remotePort # "" => r.localPort # ""

(* One that has its far end, or is for the standard input.                 *)
Ended(t, reverse) ==
    Partial(t) /\ t.reverse = reverse /\ (t.socks \/ t.stdio \/ t.remotePort # "")

(* A part that is taken leaves such a remote.                              *)
LEMMA TakePartKeeps ==
    ASSUME NEW r, Partial(r), NEW w \in Word, NEW i, NEW n,
           i = n => r.remoteHost = "" /\ r.remotePort = "",
           TakePart(r, w, i, n) # Invalid
    PROVE  Ended(TakePart(r, w, i, n), r.reverse)
PROOF
  <1> DEFINE p == L4Proto[w]
             q == TakeProto(r, p.proto)
             t == TakePart(r, w, i, n)
  <1>0. r \in Record /\ r # Invalid /\ p.word \in Word /\ p.proto \in Proto
    BY InvalidAssumption, L4ProtoAssumption DEF Partial
  <1>1. /\ q \in Record
        /\ q.localHost = r.localHost
        /\ q.localPort = r.localPort
        /\ q.remoteHost = r.remoteHost
        /\ q.remotePort = r.remotePort
        /\ q.socks = r.socks
        /\ q.reverse = r.reverse
        /\ q.stdio = r.stdio
    BY <1>0 DEF TakeProto, Record
  <1>2. /\ q.socks => q.remoteHost = "" /\ q.remotePort = ""
        /\ ~q.socks /\ q.remotePort = "" =>
               q.remoteHost = "" /\ q.localHost = "" /\ q.localPort = ""
        /\ ~q.socks /\ q.remotePort # "" => q.localPort # ""
    BY <1>1 DEF Partial
  <1>3. CASE i = n /\ w = "socks"
    <2>1. t = [r EXCEPT !.socks = TRUE]
      BY <1>0, <1>3 DEF TakePart
    <2> QED
      BY <1>0, <1>3, <2>1 DEF Ended, Partial, Record
  <1>4. CASE ~(i = n /\ w = "socks") /\ i = 1 /\ w = "stdio"
    <2>1. t = [r EXCEPT !.stdio = TRUE]
      BY <1>0, <1>4 DEF TakePart
    <2> QED
      BY <1>0, <1>4, <2>1 DEF Ended, Partial, Record
  <1>5. CASE /\ ~(i = n /\ w = "socks")
             /\ ~(i = 1 /\ w = "stdio")
             /\ p.word \in Port
    <2>1. t = TakePort(q, p.word)
      BY <1>0, <1>5 DEF TakePart
    <2>2. p.word # ""
      BY <1>5, WordAssumption
    <2>3. /\ t.localHost = r.localHost /\ t.localPort = p.word
          /\ t.remoteHost = r.remoteHost /\ t.socks = r.socks /\ t.reverse = r.reverse
          /\ t \in Record
      BY <1>0, <1>1, <1>5, <2>1 DEF Record, TakePort
    <2>4. t.remotePort = IF ~r.socks /\ r.remotePort = "" THEN p.word ELSE r.remotePort
      BY <1>0, <1>1, <1>5, <2>1 DEF Record, TakePort
    <2> QED
      BY <2>2, <2>3, <2>4 DEF Ended, Partial
  <1>6. CASE /\ ~(i = n /\ w = "socks")
             /\ ~(i = 1 /\ w = "stdio")
             /\ p.word \notin Port
    <2>1. t = TakeHost(q, p.word) /\ ~NoPorts(q) /\ p.word \in Host
      BY <1>0, <1>6 DEF TakePart
    <2>2. CASE ~q.socks /\ q.remoteHost = ""
      <3>1. t = [q EXCEPT !.remoteHost = p.word]
        BY <2>1, <2>2 DEF TakeHost
      <3>2. q.remotePort # ""
        BY <1>2, <2>1, <2>2 DEF Partial, NoPorts
      <3> QED
        BY <1>1, <1>2, <2>1, <2>2, <3>1, <3>2 DEF Ended, Partial, Record
    <2>3. CASE ~(~q.socks /\ q.remoteHost = "")
      <3>1. t = [q EXCEPT !.localHost = p.word]
        BY <2>1, <2>3 DEF TakeHost
      <3>2. q.socks \/ q.remotePort # ""
        BY <1>2, <2>1 DEF Partial, NoPorts
      <3> QED
        BY <1>1, <1>2, <2>1, <2>3, <3>1, <3>2 DEF Ended, Partial, Record
    <2> QED
      BY <2>2, <2>3
  <1> QED
    BY <1>3, <1>4, <1>5, <1>6

(* So does a step, the first one from a blank remote.                      *)
LEMMA StepKeeps ==
    ASSUME NEW text, NEW k, NEW i, i = Len(text.parts) + 1 - k,
           ~(k > Len(text.parts)), text.parts[i] \in Word,
           NEW r, r # Invalid => Partial(r),
           i = Len(text.parts) => r.remoteHost = "" /\ r.remotePort = "",
           Step(text, k, r) # Invalid
    PROVE  Ended(Step(text, k, r), r.reverse)
PROOF
  <1> DEFINE n == Len(text.parts)
             p == text.parts[i]
  <1>1. Step(text, k, r) = TakePart(r, p, i, n)
    BY Zenon DEF Step
  <1>2. r # Invalid
    BY <1>1, Zenon DEF TakePart
  <1> HIDE DEF p, n
  <1>3. p \in Word
    BY DEF p
  <1> QED
    BY <1>1, <1>2, <1>3, TakePartKeeps, Zenon DEF n

(* The parts of a text.                                                    *)
LEMMA PartsOfText ==
    ASSUME NEW parts \in Seq(Word)
    PROVE  Len(parts) \in Nat /\ \A i \in 1..Len(parts) : parts[i] \in Word
PROOF
  OBVIOUS

(* What a text of one to four parts is taken for.                          *)
LEMMA TakenShape ==
    ASSUME NEW text \in [reverse : BOOLEAN, parts : Seq(Word)],
           Len(text.parts) \in 1..4, Taken(text) # Invalid
    PROVE  Ended(Taken(text), text.reverse)
PROOF
  <1> DEFINE n == Len(text.parts)
             b == Blank(text.reverse)
             r1 == Step(text, 1, b)
             r2 == Step(text, 2, r1)
             r3 == Step(text, 3, r2)
             r4 == Step(text, 4, r3)
  <1>0. n \in Nat /\ \A i \in 1..n : text.parts[i] \in Word
    <2>1. text.parts \in Seq(Word)
      OBVIOUS
    <2> QED
      BY <2>1, PartsOfText, Zenon
  <1>1. /\ Partial(b) /\ b.reverse = text.reverse
        /\ b.remoteHost = "" /\ b.remotePort = ""
    BY ProtoAssumption DEF Blank, Partial, Record
  <1> HIDE DEF n, b, r1, r2, r3
  <1>2. r1 # Invalid => Ended(r1, text.reverse)
    <2>1. n \in 1..4
      BY DEF n
    <2>2. ~(1 > n) /\ n = n + 1 - 1 /\ n \in 1..n
      BY <2>1
    <2>3. text.parts[n] \in Word
      BY <1>0, <2>2
    <2> QED
      BY <1>1, <2>2, <2>3, StepKeeps, Zenon DEF n, r1
  <1>3. ASSUME NEW k \in {2, 3, 4}, NEW r, r # Invalid => Ended(r, text.reverse)
        PROVE  Step(text, k, r) # Invalid => Ended(Step(text, k, r), text.reverse)
    <2>1. CASE k > n
      BY <1>3, <2>1 DEF Step, n
    <2>2. CASE ~(k > n)
      <3>1. n + 1 - k # n /\ n + 1 - k \in 1..n
        BY <1>0, <2>2
      <3>2. r = Invalid => Step(text, k, r) = Invalid
        BY <2>2, Zenon DEF Step, TakePart, n
      <3>3. r # Invalid => Partial(r) /\ r.reverse = text.reverse
        BY <1>3 DEF Ended
      <3>4. text.parts[n + 1 - k] \in Word
        BY <1>0, <3>1
      <3> QED
        BY <2>2, <3>1, <3>2, <3>3, <3>4, StepKeeps, Zenon DEF n
    <2> QED
      BY <2>1, <2>2
  <1>4. r2 # Invalid => Ended(r2, text.reverse)
    BY <1>2, <1>3 DEF r2
  <1>5. r3 # Invalid => Ended(r3, text.reverse)
    BY <1>3, <1>4 DEF r3
  <1>6. r4 # Invalid => Ended(r4, text.reverse)
    BY <1>3, <1>5
  <1> QED
    BY <1>6 DEF Taken, r1, r2, r3, b

(* What DecodeRemote answers: a remote with all it needs, and either an    *)
(* address on the far side or "socks".                                     *)
Decoded(r) ==
    /\ r \in Record
    /\ r.localHost # ""
    /\ r.remoteProto # "" /\ r.localProto = r.remoteProto
    /\ r.socks => /\ r.remoteHost = "" /\ r.remotePort = ""
                  /\ r.localPort # "" /\ r.remoteProto = "tcp"
    /\ ~r.socks => r.remoteHost # ""
    /\ ~r.socks /\ r.remotePort = "" => r.remoteHost = "127.0.0.1" /\ r.remoteProto = "tcp"
    /\ ~r.socks /\ ~r.stdio => r.remotePort # "" /\ r.localPort # ""
    /\ ~(r.stdio /\ r.reverse)

LEMMA DecodedShape ==
    ASSUME NEW text \in [reverse : BOOLEAN, parts : Seq(Word)],
           DecodeRemote(text) # Invalid
    PROVE  Decoded(DecodeRemote(text)) /\ DecodeRemote(text).reverse = text.reverse
PROOF
  <1> DEFINE r == Taken(text)
             d == Defaults(r)
  <1>1. /\ Len(text.parts) \in 1..4 /\ r # Invalid /\ Supported(d)
        /\ DecodeRemote(text) = d
    BY DEF DecodeRemote
  <1>2. /\ Partial(r) /\ r.reverse = text.reverse
        /\ r.socks \/ r.stdio \/ r.remotePort # ""
    BY <1>1, TakenShape DEF Ended
  <1>3. /\ {"127.0.0.1", "0.0.0.0"} \subseteq Host /\ "1080" \in Port
        /\ "tcp" \in Proto
    BY WordAssumption, ProtoAssumption DEF Keyword
  <1>4. d \in Record /\ d.reverse = text.reverse
    BY <1>2, <1>3, ZenonT(40) DEF Partial, Record, Defaults, Or
  <1>5. /\ d.localHost # "" /\ d.remoteProto # ""
        /\ d.socks = r.socks /\ d.stdio = r.stdio /\ d.remotePort = r.remotePort
    BY <1>2, <1>3 DEF Partial, Record, Defaults, Or
  <1>6. /\ r.socks => d.remoteHost = "" /\ d.remotePort = "" /\ d.localPort # ""
        /\ ~r.socks => d.remoteHost # "" /\ d.localPort = r.localPort
    BY <1>2, <1>3 DEF Partial, Record, Defaults, Or
  <1>7. ~r.socks /\ r.remotePort = "" => d.remoteHost = "127.0.0.1" /\ d.remoteProto = "tcp"
    BY <1>2, <1>3 DEF Partial, Record, Defaults, Or
  <1> QED
    BY <1>1, <1>2, <1>4, <1>5, <1>6, <1>7 DEF Decoded, Supported, Partial

-----------------------------------------------------------------------------
(* The concatenations that occur.                                          *)
LEMMA ConcatOneOne ==
    ASSUME NEW a, NEW c
    PROVE  <<a>> \o <<c>> = <<a, c>>
PROOF
  <1> DEFINE S == {a, c}
             s == <<a>>
             t == <<c>>
             u == s \o t
  <1>1. s \in Seq(S) /\ t \in Seq(S)
    OBVIOUS
  <1>2. Len(s) = 1 /\ Len(t) = 1 /\ s[1] = a /\ t[1] = c
    OBVIOUS
  <1> HIDE DEF s, t, S
  <1>3. /\ u \in Seq(S) /\ Len(u) = Len(s) + Len(t)
        /\ \A i \in 1..(Len(s) + Len(t)) :
               u[i] = IF i <= Len(s) THEN s[i] ELSE t[i - Len(s)]
    BY <1>1, ConcatProperties
  <1> HIDE DEF u
  <1>4. u \in Seq(S) /\ Len(u) = 2 /\ u[1] = a /\ u[2] = c
    BY <1>2, <1>3
  <1>5. u = <<a, c>>
    BY <1>4
  <1> QED
    BY <1>5 DEF s, t, u

LEMMA ConcatOneTwo ==
    ASSUME NEW a, NEW c, NEW d
    PROVE  <<a>> \o <<c, d>> = <<a, c, d>>
PROOF
  <1> DEFINE S == {a, c, d}
             s == <<a>>
             t == <<c, d>>
             u == s \o t
  <1>1. s \in Seq(S) /\ t \in Seq(S)
    OBVIOUS
  <1>2. Len(s) = 1 /\ Len(t) = 2 /\ s[1] = a /\ t[1] = c /\ t[2] = d
    OBVIOUS
  <1> HIDE DEF s, t, S
  <1>3. /\ u \in Seq(S) /\ Len(u) = Len(s) + Len(t)
        /\ \A i \in 1..(Len(s) + Len(t)) :
               u[i] = IF i <= Len(s) THEN s[i] ELSE t[i - Len(s)]
    BY <1>1, ConcatProperties
  <1> HIDE DEF u
  <1>4. u \in Seq(S) /\ Len(u) = 3 /\ u[1] = a /\ u[2] = c /\ u[3] = d
    BY <1>2, <1>3
  <1>5. u = <<a, c, d>>
    BY <1>4
  <1> QED
    BY <1>5 DEF s, t, u

LEMMA ConcatTwoOne ==
    ASSUME NEW a, NEW b, NEW c
    PROVE  <<a, b>> \o <<c>> = <<a, b, c>>
PROOF
  <1> DEFINE S == {a, b, c}
             s == <<a, b>>
             t == <<c>>
             u == s \o t
  <1>1. s \in Seq(S) /\ t \in Seq(S)
    OBVIOUS
  <1>2. Len(s) = 2 /\ Len(t) = 1 /\ s[1] = a /\ s[2] = b /\ t[1] = c
    OBVIOUS
  <1> HIDE DEF s, t, S
  <1>3. /\ u \in Seq(S) /\ Len(u) = Len(s) + Len(t)
        /\ \A i \in 1..(Len(s) + Len(t)) :
               u[i] = IF i <= Len(s) THEN s[i] ELSE t[i - Len(s)]
    BY <1>1, ConcatProperties
  <1> HIDE DEF u
  <1>4. u \in Seq(S) /\ Len(u) = 3 /\ u[1] = a /\ u[2] = b /\ u[3] = c
    BY <1>2, <1>3
  <1>5. u = <<a, b, c>>
    BY <1>4
  <1> QED
    BY <1>5 DEF s, t, u

LEMMA ConcatTwoTwo ==
    ASSUME NEW a, NEW b, NEW c, NEW d
    PROVE  <<a, b>> \o <<c, d>> = <<a, b, c, d>>
PROOF
  <1> DEFINE S == {a, b, c, d}
             s == <<a, b>>
             t == <<c, d>>
             u == s \o t
  <1>1. s \in Seq(S) /\ t \in Seq(S)
    OBVIOUS
  <1>2. Len(s) = 2 /\ Len(t) = 2 /\ s[1] = a /\ s[2] = b /\ t[1] = c /\ t[2] = d
    OBVIOUS
  <1> HIDE DEF s, t, S
  <1>3. /\ u \in Seq(S) /\ Len(u) = Len(s) + Len(t)
        /\ \A i \in 1..(Len(s) + Len(t)) :
               u[i] = IF i <= Len(s) THEN s[i] ELSE t[i - Len(s)]
    BY <1>1, ConcatProperties
  <1> HIDE DEF u
  <1>4. u \in Seq(S) /\ Len(u) = 4 /\ u[1] = a /\ u[2] = b /\ u[3] = c /\ u[4] = d
    BY <1>2, <1>3
  <1>5. u = <<a, b, c, d>>
    BY <1>4
  <1> QED
    BY <1>5 DEF s, t, u

-----------------------------------------------------------------------------
(* Decoding what Encode writes.                                            *)

(* The fields of a remote whose local protocol is not known.               *)
Has(r, lh, lp, rh, rp, proto, socks, stdio, reverse) ==
    /\ r \in Record
    /\ r.localHost = lh /\ r.localPort = lp /\ r.localProto = ""
    /\ r.remoteHost = rh /\ r.remotePort = rp /\ r.remoteProto = proto
    /\ r.socks = socks /\ r.stdio = stdio /\ r.reverse = reverse

(* No remote is the error.                                                 *)
LEMMA RecordIsValid ==
    ASSUME NEW r \in Record PROVE r # Invalid
PROOF
  BY InvalidAssumption

(* Before the first part is taken,                                         *)
LEMMA BlankHas ==
    ASSUME NEW reverse \in BOOLEAN
    PROVE  Has(Blank(reverse), "", "", "", "", "", FALSE, FALSE, reverse)
PROOF
  BY ProtoAssumption DEF Blank, Record, Has

(* A word and a protocol.                                                  *)
LEMMA Fields ==
    ASSUME NEW x, NEW w, NEW proto, x = [word |-> w, proto |-> proto]
    PROVE  x.word = w /\ x.proto = proto
PROOF
  OBVIOUS

(* A word without a protocol is left as it is; ports and keywords are.     *)
LEMMA PlainWords ==
    /\ \A w \in Word : Plain(w) => L4Proto[w] = [word |-> w, proto |-> ""]
    /\ \A w \in Port \cup Keyword : w \in Word /\ Plain(w)
    /\ \A w \in Port : L4Proto[w] = [word |-> w, proto |-> ""]
PROOF
  <1>1. ASSUME NEW w \in Word, Plain(w) PROVE L4Proto[w] = [word |-> w, proto |-> ""]
    <2>1. L4Proto[w] \in [word : Word, proto : Proto]
      BY L4ProtoAssumption
    <2>2. L4Proto[w].word = w /\ L4Proto[w].proto = ""
      BY <1>1, L4ProtoAssumption DEF Plain
    <2> QED
      BY <2>1, <2>2
  <1>2. \A w \in Port \cup Keyword : w \in Word /\ Plain(w)
    BY L4ProtoAssumption, WordAssumption
  <1> QED
    BY <1>1, <1>2

(* Such a word is a port, or the host behind one, unless it is a keyword.  *)
LEMMA TakePlain ==
    ASSUME NEW r \in Record, NEW w \in Word, Plain(w), NEW i, NEW n,
           i = n => w # "socks", i = 1 => w # "stdio"
    PROVE  TakePart(r, w, i, n) = IF w \in Port THEN TakePort(r, w)
                                  ELSE IF NoPorts(r) \/ w \notin Host THEN Invalid
                                  ELSE TakeHost(r, w)
PROOF
  <1> DEFINE p == L4Proto[w]
  <1>1. p.word = w /\ p.proto = ""
    BY L4ProtoAssumption DEF Plain
  <1>2. r # Invalid
    BY RecordIsValid
  <1>3. TakeProto(r, p.proto) = r
    BY <1>1 DEF TakeProto
  <1> HIDE DEF p
  <1>4. TakePart(r, w, i, n) = IF p.word \in Port THEN TakePort(r, p.word)
                               ELSE IF NoPorts(r) \/ p.word \notin Host THEN Invalid
                               ELSE TakeHost(r, p.word)
    BY <1>2, <1>3, Zenon DEF TakePart, p
  <1> QED
    BY <1>1, <1>4

(* A word of which a port is left is not the keyword "socks".              *)
LEMMA KeywordIsNoPort ==
    ASSUME NEW u, L4Proto[u].word \in Port
    PROVE  u # "socks"
PROOF
  <1>1. "socks" \in Keyword /\ "socks" \in Word /\ "socks" \notin Port
    BY WordAssumption DEF Keyword
  <1>2. L4Proto["socks"].word = "socks"
    BY <1>1, PlainWords, L4ProtoAssumption
  <1> QED
    BY <1>1, <1>2

(* the keyword "socks", behind everything,                                 *)
LEMMA TakeSocks ==
    ASSUME NEW r, NEW reverse, Has(r, "", "", "", "", "", FALSE, FALSE, reverse),
           NEW i, NEW n, i = n
    PROVE  Has(TakePart(r, "socks", i, n),
               "", "", "", "", "", TRUE, FALSE, reverse)
PROOF
  <1>1. TakePart(r, "socks", i, n) = [r EXCEPT !.socks = TRUE]
    BY RecordIsValid DEF Has, TakePart
  <1> QED
    BY <1>1 DEF Has, Record

(* the keyword "stdio", before everything,                                 *)
LEMMA TakeStdio ==
    ASSUME NEW r, NEW lp, NEW rh, NEW rp, NEW proto, NEW socks \in BOOLEAN, NEW reverse,
           Has(r, "", lp, rh, rp, proto, socks, FALSE, reverse),
           NEW i, NEW n, i = 1, i # n
    PROVE  Has(TakePart(r, "stdio", i, n),
               "", lp, rh, rp, proto, socks, TRUE, reverse)
PROOF
  <1>1. TakePart(r, "stdio", i, n) = [r EXCEPT !.stdio = TRUE]
    BY RecordIsValid DEF Has, TakePart
  <1> QED
    BY <1>1 DEF Has, Record

(* the port of the far side, with a protocol or without,                   *)
LEMMA TakeFarPort ==
    ASSUME NEW r, NEW reverse, Has(r, "", "", "", "", "", FALSE, FALSE, reverse),
           NEW w \in Port, NEW proto \in Proto,
           NEW u, L4Proto[u] = [word |-> w, proto |-> proto], NEW i, NEW n, i = n, i # 1
    PROVE  Has(TakePart(r, u, i, n),
               "", w, "", w, proto, FALSE, FALSE, reverse)
PROOF
  <1> DEFINE q == TakeProto(r, proto)
  <1>1. Has(q, "", "", "", "", proto, FALSE, FALSE, reverse)
    BY DEF TakeProto, Has, Record
  <1>2. TakePart(r, u, i, n) = TakePort(q, w)
    <2>1. L4Proto[u].word = w /\ L4Proto[u].proto = proto
      BY Fields, Zenon
    <2>2. u # "socks"
      BY <2>1, KeywordIsNoPort
    <2>3. r # Invalid
      BY RecordIsValid DEF Has
    <2> QED
      BY <2>1, <2>2, <2>3, Zenon DEF TakePart
  <1> HIDE DEF q
  <1>3. TakePort(q, w) = [q EXCEPT !.localPort = w, !.remotePort = w]
    BY <1>1 DEF TakePort, Has
  <1>4. Has([q EXCEPT !.localPort = w, !.remotePort = w],
            "", w, "", w, proto, FALSE, FALSE, reverse)
    BY <1>1 DEF Has, Record
  <1> QED
    BY <1>2, <1>3, <1>4

(* the host of the far side,                                               *)
LEMMA TakeFarHost ==
    ASSUME NEW r, NEW lp, NEW rp, NEW proto, NEW reverse,
           Has(r, "", lp, "", rp, proto, FALSE, FALSE, reverse), rp # "",
           NEW w \in Host, Plain(w), NEW i, NEW n, i # n, i # 1
    PROVE  Has(TakePart(r, w, i, n),
               "", lp, w, rp, proto, FALSE, FALSE, reverse)
PROOF
  <1>1. w \notin Port
    BY WordAssumption
  <1>2. TakePart(r, w, i, n) = TakeHost(r, w)
    BY <1>1, TakePlain, WordAssumption DEF NoPorts, Has
  <1>3. TakeHost(r, w) = [r EXCEPT !.remoteHost = w]
    BY DEF TakeHost, Has
  <1>4. Has([r EXCEPT !.remoteHost = w], "", lp, w, rp, proto, FALSE, FALSE, reverse)
    BY DEF Has, Record
  <1> QED
    BY <1>2, <1>3, <1>4

(* the local port,                                                         *)
LEMMA TakeNearPort ==
    ASSUME NEW r, NEW lp, NEW rh, NEW rp, NEW proto, NEW socks \in BOOLEAN, NEW reverse,
           Has(r, "", lp, rh, rp, proto, socks, FALSE, reverse), socks \/ rp # "",
           NEW w \in Port, NEW i, NEW n, i # n
    PROVE  Has(TakePart(r, w, i, n),
               "", w, rh, rp, proto, socks, FALSE, reverse)
PROOF
  <1>1. w # "stdio"
    BY WordAssumption DEF Keyword
  <1>2. TakePart(r, w, i, n) = TakePort(r, w)
    <2>1. w \in Word /\ Plain(w)
      BY PlainWords
    <2> QED
      BY <1>1, <2>1, TakePlain DEF Has
  <1>3. Has(TakePort(r, w), "", w, rh, rp, proto, socks, FALSE, reverse)
    BY DEF Has, Record, TakePort
  <1> QED
    BY <1>2, <1>3

(* and the local host.                                                     *)
LEMMA TakeNearHost ==
    ASSUME NEW r, NEW lp, NEW rh, NEW rp, NEW proto, NEW socks \in BOOLEAN, NEW reverse,
           Has(r, "", lp, rh, rp, proto, socks, FALSE, reverse),
           socks \/ rp # "", socks \/ rh # "",
           NEW w \in Host, Plain(w), w # "stdio", NEW i, NEW n, i # n
    PROVE  Has(TakePart(r, w, i, n),
               w, lp, rh, rp, proto, socks, FALSE, reverse)
PROOF
  <1>1. w \notin Port
    BY WordAssumption
  <1>2. TakePart(r, w, i, n) = TakeHost(r, w)
    BY <1>1, TakePlain, WordAssumption DEF NoPorts, Has
  <1>3. TakeHost(r, w) = [r EXCEPT !.localHost = w]
    BY DEF TakeHost, Has
  <1>4. Has([r EXCEPT !.localHost = w], w, lp, rh, rp, proto, socks, FALSE, reverse)
    BY DEF Has, Record
  <1> QED
    BY <1>2, <1>3, <1>4

(* Texts of two, three and four parts.                                     *)
LEMMA TakenOfTwo ==
    ASSUME NEW rev, NEW a, NEW b
    PROVE  Taken([reverse |-> rev, parts |-> <<a, b>>]) =
               TakePart(TakePart(Blank(rev), b, 2, 2), a, 1, 2)
PROOF
  BY DEF Taken, Step

LEMMA TakenOfThree ==
    ASSUME NEW rev, NEW a, NEW b, NEW c
    PROVE  Taken([reverse |-> rev, parts |-> <<a, b, c>>]) =
               TakePart(TakePart(TakePart(
                   Blank(rev), c, 3, 3), b, 2, 3), a, 1, 3)
PROOF
  BY DEF Taken, Step

LEMMA TakenOfFour ==
    ASSUME NEW rev, NEW a, NEW b, NEW c, NEW d
    PROVE  Taken([reverse |-> rev, parts |-> <<a, b, c, d>>]) =
               TakePart(TakePart(TakePart(TakePart(
                   Blank(rev), d, 4, 4), c, 3, 4), b, 2, 4), a, 1, 4)
PROOF
  BY DEF Taken, Step

(* What Encode writes.                                                     *)
Suffix(r) == IF r.remoteProto = "udp" THEN "udp" ELSE ""

(* The port with its suffix is read as the port and the protocol.          *)
LEMMA SuffixedPort ==
    ASSUME NEW r \in Record, r.remotePort # ""
    PROVE  LET w == Suffixed(r, r.remotePort)
           IN  w # "" /\ w \in Word
               /\ L4Proto[w] = [word |-> r.remotePort, proto |-> Suffix(r)]
PROOF
  <1>1. r.remotePort \in Port
    BY DEF Record
  <1>2. "" \notin Port
    BY WordAssumption
  <1>3. L4Proto[""].word = ""
    BY L4ProtoAssumption, WordAssumption
  <1>4. /\ AppendUdp[r.remotePort] \in Word
        /\ L4Proto[AppendUdp[r.remotePort]] = [word |-> r.remotePort, proto |-> "udp"]
    BY <1>1, AppendAssumption
  <1>5. L4Proto[r.remotePort] = [word |-> r.remotePort, proto |-> ""] /\ r.remotePort \in Word
    BY <1>1, PlainWords
  <1>6. CASE r.remoteProto = "udp"
    <2> DEFINE w == AppendUdp[r.remotePort]
    <2>1. Suffixed(r, r.remotePort) = w /\ Suffix(r) = "udp"
      BY <1>6 DEF Suffixed, Suffix
    <2>2. L4Proto[w].word = r.remotePort
      BY <1>4, Fields, Zenon
    <2>3. w # ""
      BY <1>3, <2>2
    <2> QED
      BY <1>4, <2>1, <2>3
  <1>7. CASE r.remoteProto # "udp"
    BY <1>1, <1>2, <1>5, <1>7 DEF Suffixed, Suffix
  <1> QED
    BY <1>6, <1>7

LEMMA EncodeForms ==
    ASSUME NEW r, Decoded(r)
    PROVE  /\ r.stdio /\ r.socks => Encode(r) = Written(r.reverse, <<"stdio", "socks">>)
           /\ r.stdio /\ ~r.socks /\ r.remotePort # "" =>
                 Encode(r) = Written(r.reverse,
                     <<"stdio", r.remoteHost, Suffixed(r, r.remotePort)>>)
           /\ r.stdio /\ ~r.socks /\ r.remotePort = "" =>
                 Encode(r) = Written(r.reverse, <<"stdio", "127.0.0.1">>)
           /\ ~r.stdio /\ r.socks =>
                 Encode(r) = Written(r.reverse, <<r.localHost, r.localPort, "socks">>)
           /\ ~r.stdio /\ ~r.socks =>
                 Encode(r) = Written(r.reverse,
                     <<r.localHost, r.localPort, r.remoteHost,
                       Suffixed(r, r.remotePort)>>)
PROOF
  <1>1. r.stdio => LocalPart(r) = <<"stdio">>
    BY DEF LocalPart
  <1>2. ~r.stdio => LocalPart(r) = <<r.localHost, r.localPort>>
    BY DEF LocalPart, Address, Or, Decoded
  <1>3. r.socks => RemotePart(r) = <<"socks">>
    BY DEF RemotePart, Suffixed, Decoded
  <1>4. ~r.socks /\ r.remotePort # "" =>
            RemotePart(r) = <<r.remoteHost, Suffixed(r, r.remotePort)>>
    BY SuffixedPort DEF RemotePart, Address, Or, Decoded
  <1>5. ~r.socks /\ r.remotePort = "" => RemotePart(r) = <<"127.0.0.1">>
    BY DEF RemotePart, Address, Or, Suffixed, Decoded
  <1>6. ~r.socks /\ ~r.stdio => r.remotePort # ""
    BY DEF Decoded
  <1>7. CASE r.stdio /\ r.socks
    BY <1>1, <1>3, <1>7, ConcatOneOne DEF Encode
  <1>8. CASE r.stdio /\ ~r.socks /\ r.remotePort # ""
    BY <1>1, <1>4, <1>8, ConcatOneTwo DEF Encode
  <1>9. CASE r.stdio /\ ~r.socks /\ r.remotePort = ""
    BY <1>1, <1>5, <1>9, ConcatOneOne DEF Encode
  <1>10. CASE ~r.stdio /\ r.socks
    BY <1>2, <1>3, <1>10, ConcatTwoOne DEF Encode
  <1>11. CASE ~r.stdio /\ ~r.socks
    BY <1>2, <1>4, <1>6, <1>11, ConcatTwoTwo DEF Encode
  <1> QED
    BY <1>7, <1>8, <1>9, <1>10, <1>11

(* A text whose first part is not "R" is read with the prefix it had.      *)
LEMMA WrittenPlain ==
    ASSUME NEW rev \in BOOLEAN, NEW parts, rev \/ parts[1] # "R"
    PROVE  Written(rev, parts) = [reverse |-> rev, parts |-> parts]
PROOF
  BY DEF Written

(* The defaults, field by field.                                           *)
LEMMA DefaultsHas ==
    ASSUME NEW t \in Record
    PROVE  LET d     == Defaults(t)
               proto == Or(t.remoteProto, "tcp")
           IN  /\ d \in Record
               /\ d.localHost = Or(t.localHost, IF t.socks THEN "127.0.0.1" ELSE "0.0.0.0")
               /\ d.localPort = IF t.socks THEN Or(t.localPort, "1080") ELSE t.localPort
               /\ d.remoteHost = IF t.socks THEN t.remoteHost
                                 ELSE Or(t.remoteHost, "127.0.0.1")
               /\ d.remotePort = t.remotePort
               /\ d.remoteProto = proto /\ d.localProto = Or(t.localProto, proto)
               /\ d.socks = t.socks /\ d.stdio = t.stdio /\ d.reverse = t.reverse
PROOF
  <1> DEFINE d == Defaults(t)
  <1>1. /\ {"127.0.0.1", "0.0.0.0"} \subseteq Host /\ "1080" \in Port /\ "tcp" \in Proto
    BY WordAssumption, ProtoAssumption DEF Keyword
  <1>2. d \in Record
    BY <1>1, ZenonT(40) DEF Defaults, Or, Record
  <1>3. /\ d.localHost = Or(t.localHost, IF t.socks THEN "127.0.0.1" ELSE "0.0.0.0")
        /\ d.localPort = IF t.socks THEN Or(t.localPort, "1080") ELSE t.localPort
    BY DEF Defaults, Record
  <1>4. /\ d.remoteHost = IF t.socks THEN t.remoteHost ELSE Or(t.remoteHost, "127.0.0.1")
        /\ d.remotePort = t.remotePort
    BY DEF Defaults, Record
  <1>5. /\ d.remoteProto = Or(t.remoteProto, "tcp")
        /\ d.localProto = Or(t.localProto, Or(t.remoteProto, "tcp"))
    BY DEF Defaults, Record
  <1>6. d.socks = t.socks /\ d.stdio = t.stdio /\ d.reverse = t.reverse
    BY DEF Defaults, Record
  <1> QED
    BY <1>2, <1>3, <1>4, <1>5, <1>6
-----------------------------------------------------------------------------
(* The texts Encode writes, read.                                          *)

LEMMA Positions ==
    /\ 1 # 2 /\ 1 # 3 /\ 1 # 4 /\ 2 # 3 /\ 2 # 4 /\ 3 # 4
    /\ 2 # 1 /\ 3 # 1 /\ 4 # 1
PROOF
  OBVIOUS

(* "stdio:socks",                                                          *)
LEMMA TakeStdioSocks ==
    ASSUME NEW reverse \in BOOLEAN
    PROVE  LET text == [reverse |-> reverse,
                        parts |-> <<"stdio", "socks">>]
           IN  Has(Taken(text), "", "", "", "", "", TRUE, TRUE, reverse)
PROOF
  <1> DEFINE t1 == TakePart(Blank(reverse), "socks", 2, 2)
             t2 == TakePart(t1, "stdio", 1, 2)
  <1>1. 1 # 2
    OBVIOUS
  <1>2. Has(t1, "", "", "", "", "", TRUE, FALSE, reverse)
    BY BlankHas, TakeSocks, Zenon
  <1> HIDE DEF t1
  <1>3. Has(t2, "", "", "", "", "", TRUE, TRUE, reverse)
    BY <1>1, <1>2, TakeStdio, Zenon
  <1> QED
    BY <1>3, TakenOfTwo, Zenon DEF t1

(* "stdio" with an address,                                                *)
LEMMA TakeStdioAddress ==
    ASSUME NEW reverse \in BOOLEAN,
           NEW rh \in Host, Plain(rh), NEW rp \in Port, NEW proto \in Proto,
           NEW far, L4Proto[far] = [word |-> rp, proto |-> proto]
    PROVE  Has(Taken([reverse |-> reverse,
                      parts |-> <<"stdio", rh, far>>]),
               "", rp, rh, rp, proto, FALSE, TRUE, reverse)
PROOF
  <1> DEFINE p1 == "stdio"
             p2 == rh
             p3 == far
             t1 == TakePart(Blank(reverse), p3, 3, 3)
             t2 == TakePart(t1, p2, 2, 3)
             t3 == TakePart(t2, p1, 1, 3)
  <1> HIDE DEF p1, p2, p3
  <1>1. Taken([reverse |-> reverse, parts |-> <<p1, p2, p3>>]) = t3
    BY TakenOfThree
  <1> SUFFICES Has(t3, "", rp, rh, rp, proto, FALSE, TRUE, reverse)
    BY <1>1, Zenon DEF p1, p2, p3
  <1>2. 1 # 3 /\ 2 # 3 /\ 3 # 1 /\ 2 # 1
    BY Positions
  <1>3. rp # ""
    BY WordAssumption
  <1>4. Has(t1, "", rp, "", rp, proto, FALSE, FALSE, reverse)
    BY <1>2, BlankHas, TakeFarPort, Zenon DEF p3
  <1> HIDE DEF t1
  <1>5. Has(t2, "", rp, rh, rp, proto, FALSE, FALSE, reverse)
    BY <1>2, <1>3, <1>4, TakeFarHost, Zenon DEF p2
  <1> HIDE DEF t2
  <1> QED
    BY <1>2, <1>5, TakeStdio, Zenon DEF p1

(* a local address with "socks",                                           *)
LEMMA TakeAddressSocks ==
    ASSUME NEW reverse \in BOOLEAN, NEW lh \in Host, Plain(lh), NEW lp \in Port
    PROVE  LET t == Taken([reverse |-> reverse,
                           parts |-> <<lh, lp, "socks">>])
           IN  /\ lh # "stdio" => Has(t, lh, lp, "", "", "", TRUE, FALSE, reverse)
               /\ lh = "stdio" => Has(t, "", lp, "", "", "", TRUE, TRUE, reverse)
PROOF
  <1> DEFINE p1 == lh
             p2 == lp
             p3 == "socks"
             t1 == TakePart(Blank(reverse), p3, 3, 3)
             t2 == TakePart(t1, p2, 2, 3)
             t3 == TakePart(t2, p1, 1, 3)
  <1> HIDE DEF p1, p2, p3
  <1>1. Taken([reverse |-> reverse, parts |-> <<p1, p2, p3>>]) = t3
    BY TakenOfThree
  <1> SUFFICES /\ lh # "stdio" => Has(t3, lh, lp, "", "", "", TRUE, FALSE, reverse)
               /\ lh = "stdio" => Has(t3, "", lp, "", "", "", TRUE, TRUE, reverse)
    BY <1>1, Zenon DEF p1, p2, p3
  <1>2. 1 # 3 /\ 2 # 3
    BY Positions
  <1>3. Has(t1, "", "", "", "", "", TRUE, FALSE, reverse)
    BY BlankHas, TakeSocks, Zenon DEF p3
  <1> HIDE DEF t1
  <1>4. Has(t2, "", lp, "", "", "", TRUE, FALSE, reverse)
    BY <1>2, <1>3, TakeNearPort, Zenon DEF p2
  <1> HIDE DEF t2
  <1>5. CASE lh # "stdio"
    BY <1>2, <1>4, <1>5, TakeNearHost, Zenon DEF p1
  <1>6. CASE lh = "stdio"
    BY <1>2, <1>4, <1>6, TakeStdio, Zenon DEF p1
  <1> QED
    BY <1>5, <1>6

(* and two addresses.                                                      *)
LEMMA TakeAddresses ==
    ASSUME NEW reverse \in BOOLEAN, NEW lh \in Host, Plain(lh), NEW lp \in Port,
           NEW rh \in Host, Plain(rh), NEW rp \in Port, NEW proto \in Proto,
           NEW far, L4Proto[far] = [word |-> rp, proto |-> proto]
    PROVE  LET t == Taken([reverse |-> reverse,
                           parts |-> <<lh, lp, rh, far>>])
           IN  rh # "" =>
                   /\ lh # "stdio" => Has(t, lh, lp, rh, rp, proto, FALSE, FALSE, reverse)
                   /\ lh = "stdio" => Has(t, "", lp, rh, rp, proto, FALSE, TRUE, reverse)
PROOF
  <1> DEFINE p1 == lh
             p2 == lp
             p3 == rh
             p4 == far
             t1 == TakePart(Blank(reverse), p4, 4, 4)
             t2 == TakePart(t1, p3, 3, 4)
             t3 == TakePart(t2, p2, 2, 4)
             t4 == TakePart(t3, p1, 1, 4)
  <1> HIDE DEF p1, p2, p3, p4
  <1>1. Taken([reverse |-> reverse, parts |-> <<p1, p2, p3, p4>>]) = t4
    BY TakenOfFour
  <1> SUFFICES ASSUME rh # ""
      PROVE  /\ lh # "stdio" => Has(t4, lh, lp, rh, rp, proto, FALSE, FALSE, reverse)
             /\ lh = "stdio" => Has(t4, "", lp, rh, rp, proto, FALSE, TRUE, reverse)
    BY <1>1, Zenon DEF p1, p2, p3, p4
  <1>2. 1 # 4 /\ 2 # 4 /\ 3 # 4 /\ 4 # 1 /\ 3 # 1
    BY Positions
  <1>3. rp # ""
    BY WordAssumption
  <1>4. Has(t1, "", rp, "", rp, proto, FALSE, FALSE, reverse)
    BY <1>2, BlankHas, TakeFarPort, Zenon DEF p4
  <1> HIDE DEF t1
  <1>5. Has(t2, "", rp, rh, rp, proto, FALSE, FALSE, reverse)
    BY <1>2, <1>3, <1>4, TakeFarHost, Zenon DEF p3
  <1> HIDE DEF t2
  <1>6. Has(t3, "", lp, rh, rp, proto, FALSE, FALSE, reverse)
    BY <1>2, <1>3, <1>5, TakeNearPort, Zenon DEF p2
  <1> HIDE DEF t3
  <1>7. CASE lh # "stdio"
    BY <1>2, <1>3, <1>6, <1>7, TakeNearHost, Zenon DEF p1
  <1>8. CASE lh = "stdio"
    BY <1>2, <1>6, <1>8, TakeStdio, Zenon DEF p1
  <1> QED
    BY <1>7, <1>8

(* The texts are short enough to be read.                                  *)
LEMMA ShortTexts ==
    ASSUME NEW reverse, NEW a, NEW b, NEW c, NEW d
    PROVE  /\ Len([reverse |-> reverse, parts |-> <<a, b>>].parts) \in 1..4
           /\ Len([reverse |-> reverse, parts |-> <<a, b, c>>].parts) \in 1..4
           /\ Len([reverse |-> reverse, parts |-> <<a, b, c, d>>].parts) \in 1..4
PROOF
  OBVIOUS

(* What was taken is completed to the answer, if it is supported.          *)
LEMMA Answered ==
    ASSUME NEW text, Len(text.parts) \in 1..4, Taken(text) \in Record
    PROVE  LET d == Defaults(Taken(text))
           IN  DecodeRemote(text) = IF Supported(d) THEN d ELSE Invalid
PROOF
  BY RecordIsValid DEF DecodeRemote

(* When two remotes have the same meaning.                                 *)
Alike(q, r) ==
    /\ q.socks = r.socks /\ q.stdio = r.stdio /\ q.reverse = r.reverse
    /\ q.remoteHost = r.remoteHost /\ q.remotePort = r.remotePort
    /\ q.remoteProto = r.remoteProto /\ q.localProto = r.localProto
    /\ ~r.stdio => q.localHost = r.localHost /\ q.localPort = r.localPort

LEMMA RecordIsFields ==
    ASSUME NEW r \in Record
    PROVE  r = [localHost |-> r.localHost, localPort |-> r.localPort,
                localProto |-> r.localProto, remoteHost |-> r.remoteHost,
                remotePort |-> r.remotePort, remoteProto |-> r.remoteProto,
                socks |-> r.socks, reverse |-> r.reverse, stdio |-> r.stdio]
PROOF
  BY DEF Record

LEMMA MeaningIsAlike ==
    ASSUME NEW q \in Record, NEW r \in Record
    PROVE  Meaning(q) = Meaning(r) <=> Alike(q, r)
PROOF
  <1>1. ASSUME Meaning(q) = Meaning(r) PROVE Alike(q, r)
    BY <1>1, ZenonT(40) DEF Meaning, Alike, Record
  <1>2. ASSUME Alike(q, r) PROVE Meaning(q) = Meaning(r)
    <2>1. CASE r.stdio
      BY <1>2, <2>1 DEF Meaning, Alike, Record
    <2>2. CASE ~r.stdio
      <3>1. q = r
        BY <1>2, <2>2, RecordIsFields, Zenon DEF Alike
      <3> QED
        BY <3>1
    <2> QED
      BY <2>1, <2>2
  <1> QED
    BY <1>1, <1>2
(* What is read agrees with the remote that was written, or not.           *)
LEMMA Compared ==
    ASSUME NEW r, Decoded(r), NEW text, Encode(r) = text,
           Len(text.parts) \in 1..4, Taken(text) \in Record
    PROVE  LET d == Defaults(Taken(text))
           IN  Decodable(r) <=> Supported(d) /\ Alike(d, r)
PROOF
  <1> DEFINE d == Defaults(Taken(text))
  <1>1. d \in Record /\ r \in Record
    BY DefaultsHas DEF Decoded
  <1> HIDE DEF d
  <1>2. DecodeRemote(text) = IF Supported(d) THEN d ELSE Invalid
    BY Answered, Zenon DEF d
  <1>3. d # Invalid /\ (Meaning(d) = Meaning(r) <=> Alike(d, r))
    BY <1>1, RecordIsValid, MeaningIsAlike
  <1>4. Decodable(r) <=> DecodeRemote(text) # Invalid
                         /\ Meaning(DecodeRemote(text)) = Meaning(r)
    BY Zenon DEF Decodable
  <1>5. Decodable(r) <=> Supported(d) /\ Alike(d, r)
    <2>1. CASE Supported(d)
      BY <1>2, <1>3, <1>4, <2>1, Zenon
    <2>2. CASE ~Supported(d)
      BY <1>2, <1>3, <1>4, <2>2, Zenon
    <2> QED
      BY <2>1, <2>2
  <1> QED
    BY <1>5 DEF d

(* "stdio:socks" is read as what it was written for.                       *)
LEMMA StdioSocksDecodable ==
    ASSUME NEW r, Decoded(r), r.stdio, r.socks
    PROVE  Decodable(r) /\ ~Unwritable(r)
PROOF
  <1> DEFINE text == [reverse |-> r.reverse, parts |-> <<"stdio", "socks">>]
             t == Taken(text)
             d == Defaults(t)
  <1>1. Encode(r) = text
    BY EncodeForms, WrittenPlain DEF Decoded, Record
  <1>2. Has(t, "", "", "", "", "", TRUE, TRUE, r.reverse)
    BY TakeStdioSocks DEF Decoded, Record
  <1>3. Len(text.parts) \in 1..4
    BY ShortTexts
  <1> HIDE DEF text
  <1>4. t \in Record
    BY <1>2 DEF Has
  <1>5. Decodable(r) <=> Supported(d) /\ Alike(d, r)
    BY <1>1, <1>3, <1>4, Compared
  <1>6. /\ d.socks /\ d.stdio /\ d.reverse = r.reverse
        /\ d.remoteHost = "" /\ d.remotePort = ""
        /\ d.remoteProto = "tcp" /\ d.localProto = "tcp"
    BY <1>2, <1>4, DefaultsHas DEF Has, Or
  <1> HIDE DEF d
  <1> QED
    BY <1>5, <1>6 DEF Decoded, Supported, Alike, Unwritable

(* The protocol that is written is read as the one it was, or as "tcp".    *)
LEMMA SuffixReads ==
    ASSUME NEW r
    PROVE  Or(Suffix(r), "tcp") = r.remoteProto <=> r.remoteProto \in {"tcp", "udp"}
PROOF
  BY DEF Or, Suffix

(* "stdio" with an address is read, but for the protocol,                  *)
LEMMA StdioAddressDecodable ==
    ASSUME NEW r, Decoded(r), r.stdio, ~r.socks, r.remotePort # "", Plain(r.remoteHost)
    PROVE  Decodable(r) <=> ~Unwritable(r)
PROOF
  <1> DEFINE far == Suffixed(r, r.remotePort)
             text == [reverse |-> r.reverse, parts |-> <<"stdio", r.remoteHost, far>>]
             t == Taken(text)
             d == Defaults(t)
  <1>1. Encode(r) = text
    BY EncodeForms, WrittenPlain DEF Decoded, Record
  <1>2. Has(t, "", r.remotePort, r.remoteHost, r.remotePort, Suffix(r),
            FALSE, TRUE, r.reverse)
    <2>1. /\ r.reverse \in BOOLEAN /\ r.remoteHost \in Host /\ r.remotePort \in Port
          /\ Suffix(r) \in Proto
      BY ProtoAssumption DEF Decoded, Record, Suffix
    <2>2. L4Proto[far] = [word |-> r.remotePort, proto |-> Suffix(r)]
      BY SuffixedPort DEF Decoded
    <2> HIDE DEF far
    <2> QED
      BY <2>1, <2>2, TakeStdioAddress, Zenon
  <1>3. Len(text.parts) \in 1..4
    BY ShortTexts
  <1> HIDE DEF text, far
  <1>4. t \in Record
    BY <1>2 DEF Has
  <1>5. Decodable(r) <=> Supported(d) /\ Alike(d, r)
    BY <1>1, <1>3, <1>4, Compared
  <1>6. /\ d.socks = FALSE /\ d.stdio = TRUE /\ d.reverse = r.reverse
        /\ d.remoteHost = r.remoteHost /\ d.remotePort = r.remotePort
        /\ d.remoteProto = Or(Suffix(r), "tcp") /\ d.localProto = Or(Suffix(r), "tcp")
    BY <1>2, <1>4, DefaultsHas DEF Has, Or, Decoded
  <1> HIDE DEF d
  <1>7. Supported(d)
    BY <1>6 DEF Decoded, Supported
  <1>8. Alike(d, r) <=> Or(Suffix(r), "tcp") = r.remoteProto
    <2>1. r.socks = FALSE /\ r.stdio = TRUE /\ r.localProto = r.remoteProto
      BY DEF Decoded, Record
    <2> QED
      BY <1>6, <2>1, Zenon DEF Alike
  <1>9. Unwritable(r) <=> r.remoteProto \notin {"tcp", "udp"}
    BY DEF Unwritable
  <1> QED
    BY <1>5, <1>7, <1>8, <1>9, SuffixReads

(* and without one it is refused: the host comes behind no port.           *)
LEMMA StdioAloneRefused ==
    ASSUME NEW r, Decoded(r), r.stdio, ~r.socks, r.remotePort = ""
    PROVE  ~Decodable(r) /\ Unwritable(r)
PROOF
  <1> DEFINE b == Blank(r.reverse)
             w == "127.0.0.1"
             text == [reverse |-> r.reverse, parts |-> <<"stdio", w>>]
             t1 == TakePart(b, w, 2, 2)
             t2 == TakePart(t1, "stdio", 1, 2)
  <1>1. Encode(r) = text
    BY EncodeForms, WrittenPlain DEF Decoded, Record
  <1>2. t1 = Invalid
    <2>1. w \in Word /\ Plain(w) /\ w \notin Port
      BY PlainWords, WordAssumption DEF Keyword
    <2>2. b \in Record /\ NoPorts(b)
      BY BlankHas DEF NoPorts, Has, Decoded, Record
    <2>3. 2 # 1 /\ w # "socks"
      BY Positions
    <2> HIDE DEF b, w
    <2> QED
      BY <2>1, <2>2, <2>3, TakePlain
  <1> HIDE DEF b, w, t1
  <1>3. t2 = Invalid
    BY <1>2, Zenon DEF TakePart
  <1> HIDE DEF t2
  <1>4. Taken(text) = t2
    BY TakenOfTwo DEF t1, t2, b
  <1> HIDE DEF text
  <1>5. DecodeRemote(text) = Invalid
    BY <1>3, <1>4 DEF DecodeRemote
  <1> QED
    BY <1>1, <1>5 DEF Decodable, Unwritable

(* A local host of the name "R", where there was no prefix, is taken for   *)
(* one.                                                                    *)
LEMMA PrefixMistaken ==
    ASSUME NEW r, Decoded(r), ~r.stdio, ~r.reverse, r.localHost = "R"
    PROVE  ~Decodable(r) /\ Unwritable(r)
PROOF
  <1> DEFINE far == Suffixed(r, r.remotePort)
  <1>1. /\ r.localPort \in Word /\ "socks" \in Word
        /\ ~r.socks => r.remoteHost \in Word /\ far \in Word
    <2>1. Port \cup Host \cup {""} \subseteq Word /\ "socks" \in Word
      BY WordAssumption DEF Keyword
    <2>2. ~r.socks => far \in Word
      BY SuffixedPort DEF Decoded
    <2> QED
      BY <2>1, <2>2 DEF Decoded, Record
  <1>0. r.reverse = FALSE
    BY DEF Decoded, Record
  <1>2. PICK parts \in Seq(Word) : Encode(r) = [reverse |-> TRUE, parts |-> parts]
    <2>1. CASE r.socks
      <3> DEFINE tail == <<r.localPort, "socks">>
                 all == <<r.localHost, r.localPort, "socks">>
      <3>1. Encode(r) = Written(FALSE, all)
        BY <1>0, <2>1, EncodeForms
      <3>2. all[1] = "R" /\ Tail(all) = tail
        OBVIOUS
      <3>3. tail \in Seq(Word)
        BY <1>1
      <3> QED
        BY <3>1, <3>2, <3>3 DEF Written
    <2>2. CASE ~r.socks
      <3> DEFINE tail == <<r.localPort, r.remoteHost, far>>
                 all == <<r.localHost, r.localPort, r.remoteHost, far>>
      <3>1. Encode(r) = Written(FALSE, all)
        BY <1>0, <2>2, EncodeForms
      <3> HIDE DEF far
      <3>2. all[1] = "R" /\ Tail(all) = tail
        OBVIOUS
      <3>3. tail \in Seq(Word)
        BY <1>1, <2>2
      <3> QED
        BY <3>1, <3>2, <3>3 DEF Written
    <2> QED
      BY <2>1, <2>2
  <1> DEFINE q == DecodeRemote(Encode(r))
  <1>3. q # Invalid => q \in Record /\ q.reverse
    <2>1. Encode(r) \in [reverse : BOOLEAN, parts : Seq(Word)] /\ Encode(r).reverse
      BY <1>2
    <2> QED
      BY <2>1, DecodedShape DEF Decoded
  <1> HIDE DEF q
  <1>4. q # Invalid => Meaning(q) # Meaning(r)
    BY <1>3, MeaningIsAlike DEF Alike, Decoded
  <1> QED
    BY <1>4 DEF Decodable, Unwritable, q

(* A local address with "socks" is read as what it was written for, unless *)
(* its host is "stdio".                                                    *)
LEMMA AddressSocksDecodable ==
    ASSUME NEW r, Decoded(r), ~r.stdio, r.socks, r.reverse \/ r.localHost # "R",
           Plain(r.localHost)
    PROVE  Decodable(r) <=> ~Unwritable(r)
PROOF
  <1> DEFINE text == [reverse |-> r.reverse,
                      parts |-> <<r.localHost, r.localPort, "socks">>]
             t == Taken(text)
             d == Defaults(t)
  <1>1. Encode(r) = text
    BY EncodeForms, WrittenPlain DEF Decoded, Record
  <1>2. r.reverse \in BOOLEAN /\ r.localHost \in Host /\ r.localPort \in Port
    BY DEF Decoded, Record
  <1>3. /\ r.localHost # "stdio" =>
               Has(t, r.localHost, r.localPort, "", "", "", TRUE, FALSE, r.reverse)
        /\ r.localHost = "stdio" =>
               Has(t, "", r.localPort, "", "", "", TRUE, TRUE, r.reverse)
    BY <1>2, TakeAddressSocks, Zenon
  <1>4. Len(text.parts) \in 1..4
    BY ShortTexts
  <1> HIDE DEF text
  <1>5. t \in Record
    BY <1>3 DEF Has
  <1>6. Decodable(r) <=> Supported(d) /\ Alike(d, r)
    BY <1>1, <1>4, <1>5, Compared
  <1>7. CASE r.localHost = "stdio"
    <2>1. d.stdio
      BY <1>3, <1>5, <1>7, DefaultsHas DEF Has
    <2> HIDE DEF d
    <2> QED
      BY <1>6, <1>7, <2>1 DEF Alike, Unwritable
  <1>8. CASE r.localHost # "stdio"
    <2>1. /\ d.socks = TRUE /\ d.stdio = FALSE /\ d.reverse = r.reverse
          /\ d.localHost = r.localHost /\ d.localPort = r.localPort
          /\ d.remoteHost = "" /\ d.remotePort = ""
          /\ d.remoteProto = "tcp" /\ d.localProto = "tcp"
      <3>1. /\ t.socks = TRUE /\ t.stdio = FALSE /\ t.reverse = r.reverse
            /\ t.localHost = r.localHost /\ t.localPort = r.localPort
            /\ t.remoteHost = "" /\ t.remotePort = ""
            /\ t.remoteProto = "" /\ t.localProto = ""
        BY <1>3, <1>8, Zenon DEF Has
      <3>2. r.localHost # "" /\ r.localPort # ""
        BY DEF Decoded
      <3> HIDE DEF t, d
      <3>3. /\ d.socks = t.socks /\ d.stdio = t.stdio /\ d.reverse = t.reverse
            /\ d.localHost = Or(t.localHost, IF t.socks THEN "127.0.0.1" ELSE "0.0.0.0")
            /\ d.localPort = IF t.socks THEN Or(t.localPort, "1080") ELSE t.localPort
            /\ d.remoteHost = IF t.socks THEN t.remoteHost
                              ELSE Or(t.remoteHost, "127.0.0.1")
            /\ d.remotePort = t.remotePort
            /\ d.remoteProto = Or(t.remoteProto, "tcp")
            /\ d.localProto = Or(t.localProto, Or(t.remoteProto, "tcp"))
        BY <1>5, DefaultsHas, Zenon DEF d
      <3> QED
        BY <3>1, <3>2, <3>3, Zenon DEF Or
    <2> HIDE DEF d
    <2>2. /\ r.socks = TRUE /\ r.stdio = FALSE
          /\ r.remoteHost = "" /\ r.remotePort = ""
          /\ r.localProto = "tcp" /\ r.remoteProto = "tcp"
      BY DEF Decoded, Record
    <2>3. Supported(d)
      BY <2>1 DEF Supported
    <2>4. Alike(d, r)
      BY <2>1, <2>2, Zenon DEF Alike
    <2> QED
      BY <1>6, <1>8, <2>2, <2>3, <2>4 DEF Unwritable
  <1> QED
    BY <1>7, <1>8

(* So are two addresses, but for the protocol.                             *)
LEMMA AddressesDecodable ==
    ASSUME NEW r, Decoded(r), ~r.stdio, ~r.socks, r.reverse \/ r.localHost # "R",
           Plain(r.localHost), Plain(r.remoteHost)
    PROVE  Decodable(r) <=> ~Unwritable(r)
PROOF
  <1> DEFINE far == Suffixed(r, r.remotePort)
             text == [reverse |-> r.reverse,
                      parts |-> <<r.localHost, r.localPort, r.remoteHost, far>>]
             t == Taken(text)
             d == Defaults(t)
  <1>1. Encode(r) = text
    BY EncodeForms, WrittenPlain DEF Decoded, Record
  <1>2. /\ r.reverse \in BOOLEAN /\ r.localHost \in Host /\ r.localPort \in Port
        /\ r.remoteHost \in Host /\ r.remotePort \in Port /\ Suffix(r) \in Proto
        /\ r.remoteHost # ""
    BY ProtoAssumption DEF Decoded, Record, Suffix
  <1>9. L4Proto[far] = [word |-> r.remotePort, proto |-> Suffix(r)]
    BY SuffixedPort DEF Decoded
  <1> HIDE DEF far
  <1>3. /\ r.localHost # "stdio" =>
               Has(t, r.localHost, r.localPort, r.remoteHost, r.remotePort, Suffix(r),
                   FALSE, FALSE, r.reverse)
        /\ r.localHost = "stdio" =>
               Has(t, "", r.localPort, r.remoteHost, r.remotePort, Suffix(r),
                   FALSE, TRUE, r.reverse)
    BY <1>2, <1>9, TakeAddresses, Zenon
  <1>4. Len(text.parts) \in 1..4
    BY ShortTexts
  <1> HIDE DEF text
  <1>5. t \in Record
    BY <1>3 DEF Has
  <1>6. Decodable(r) <=> Supported(d) /\ Alike(d, r)
    BY <1>1, <1>4, <1>5, Compared
  <1>7. CASE r.localHost = "stdio"
    <2>1. d.stdio
      BY <1>3, <1>5, <1>7, DefaultsHas DEF Has
    <2> HIDE DEF d
    <2> QED
      BY <1>6, <1>7, <2>1 DEF Alike, Unwritable
  <1>8. CASE r.localHost # "stdio"
    <2> DEFINE proto == Or(Suffix(r), "tcp")
    <2>0. /\ r.localHost # "" /\ r.remoteHost # ""
          /\ r.localProto = r.remoteProto /\ r.socks = FALSE /\ r.stdio = FALSE
      BY DEF Decoded, Record
    <2>1. /\ d.socks = FALSE /\ d.stdio = FALSE /\ d.reverse = r.reverse
          /\ d.localHost = r.localHost /\ d.localPort = r.localPort
          /\ d.remoteHost = r.remoteHost /\ d.remotePort = r.remotePort
          /\ d.remoteProto = proto /\ d.localProto = proto
      <3>1. /\ t.socks = FALSE /\ t.stdio = FALSE /\ t.reverse = r.reverse
            /\ t.localHost = r.localHost /\ t.localPort = r.localPort
            /\ t.remoteHost = r.remoteHost /\ t.remotePort = r.remotePort
            /\ t.remoteProto = Suffix(r) /\ t.localProto = ""
        BY <1>3, <1>8, Zenon DEF Has
      <3> HIDE DEF t, d
      <3>2. /\ d.socks = t.socks /\ d.stdio = t.stdio /\ d.reverse = t.reverse
            /\ d.localHost = Or(t.localHost, "0.0.0.0") /\ d.localPort = t.localPort
            /\ d.remoteHost = Or(t.remoteHost, "127.0.0.1")
            /\ d.remotePort = t.remotePort
            /\ d.remoteProto = Or(t.remoteProto, "tcp")
            /\ d.localProto = Or(t.localProto, Or(t.remoteProto, "tcp"))
        BY <1>5, <3>1, DefaultsHas DEF d
      <3> QED
        BY <2>0, <3>1, <3>2 DEF Or
    <2> HIDE DEF d
    <2>2. Supported(d)
      BY <2>1 DEF Supported
    <2>3. Alike(d, r) <=> proto = r.remoteProto
      BY <2>0, <2>1, Zenon DEF Alike
    <2>4. Unwritable(r) <=> r.remoteProto \notin {"tcp", "udp"}
      BY <1>8 DEF Unwritable
    <2> QED
      BY <1>6, <2>2, <2>3, <2>4, SuffixReads
  <1> QED
    BY <1>7, <1>8

-----------------------------------------------------------------------------
(* Hosts that end in a protocol.                                           *)

(* Where a part may leave its word h: a port leaves the hosts alone, and   *)
(* the host that comes first is the remote one.                            *)
Leaves(t, r, h) ==
    /\ t \in Record
    /\ t.localHost \in {r.localHost, h}
    /\ t.remoteHost \in {r.remoteHost, h}
    /\ ~r.socks /\ r.remoteHost = "" => t.localHost = r.localHost
    /\ h \in Port => t.localHost = r.localHost /\ t.remoteHost = r.remoteHost

LEMMA TakePartHosts ==
    ASSUME NEW r \in Record, NEW w \in Word, NEW i, NEW n, TakePart(r, w, i, n) # Invalid
    PROVE  Leaves(TakePart(r, w, i, n), r, L4Proto[w].word)
PROOF
  <1> DEFINE p == L4Proto[w]
             q == TakeProto(r, p.proto)
             t == TakePart(r, w, i, n)
  <1>1. r # Invalid /\ p.word \in Word /\ p.proto \in Proto
    BY RecordIsValid, L4ProtoAssumption
  <1>2. /\ q \in Record /\ q.localHost = r.localHost /\ q.remoteHost = r.remoteHost
        /\ q.socks = r.socks
    BY <1>1 DEF TakeProto, Record
  <1>3. CASE i = n /\ w = "socks"
    <2>1. t = [r EXCEPT !.socks = TRUE]
      BY <1>1, <1>3 DEF TakePart
    <2> QED
      BY <2>1 DEF Record, Leaves
  <1>4. CASE ~(i = n /\ w = "socks") /\ i = 1 /\ w = "stdio"
    <2>1. t = [r EXCEPT !.stdio = TRUE]
      BY <1>1, <1>4 DEF TakePart
    <2> QED
      BY <2>1 DEF Record, Leaves
  <1>5. CASE ~(i = n /\ w = "socks") /\ ~(i = 1 /\ w = "stdio") /\ p.word \in Port
    <2>1. t = TakePort(q, p.word)
      BY <1>1, <1>5 DEF TakePart
    <2> HIDE DEF q, p
    <2>2. t \in Record /\ t.localHost = q.localHost /\ t.remoteHost = q.remoteHost
      BY <1>2, <1>5, <2>1 DEF TakePort, Record
    <2> QED
      BY <1>2, <2>2 DEF p, Leaves
  <1>6. CASE ~(i = n /\ w = "socks") /\ ~(i = 1 /\ w = "stdio") /\ p.word \notin Port
    <2>1. t = TakeHost(q, p.word) /\ p.word \in Host
      BY <1>1, <1>6 DEF TakePart
    <2> HIDE DEF q, p
    <2>2. CASE ~q.socks /\ q.remoteHost = ""
      <3>1. t = [q EXCEPT !.remoteHost = p.word]
        BY <2>1, <2>2 DEF TakeHost
      <3>2. t \in Record /\ t.localHost = q.localHost /\ t.remoteHost = p.word
        BY <1>2, <2>1, <3>1 DEF Record
      <3> QED
        BY <1>2, <1>6, <3>2 DEF p, Leaves
    <2>3. CASE ~(~q.socks /\ q.remoteHost = "")
      <3>1. t = [q EXCEPT !.localHost = p.word]
        BY <2>1, <2>3 DEF TakeHost
      <3>2. t \in Record /\ t.remoteHost = q.remoteHost /\ t.localHost = p.word
        BY <1>2, <2>1, <3>1 DEF Record
      <3> QED
        BY <1>2, <1>6, <2>3, <3>2 DEF p, Leaves
    <2> QED
      BY <2>2, <2>3
  <1> QED
    BY <1>3, <1>4, <1>5, <1>6

(* The error stays.                                                        *)
LEMMA InvalidStays ==
    ASSUME NEW w, NEW i, NEW n
    PROVE  TakePart(Invalid, w, i, n) = Invalid
PROOF
  BY Zenon DEF TakePart

(* A text from which a host does not come back is not a writing of it.     *)
LEMMA Refuted ==
    ASSUME NEW r, Decoded(r), NEW text, Encode(r) = text, NEW t, Taken(text) = t,
           t # Invalid => t \in Record,
           t # Invalid =>
               \/ /\ ~r.stdio
                  /\ t.localHost # r.localHost
                  /\ r.localHost \notin {"127.0.0.1", "0.0.0.0"}
               \/ t.remoteHost # r.remoteHost /\ r.remoteHost # "127.0.0.1"
    PROVE  ~Decodable(r)
PROOF
  <1> DEFINE d == Defaults(t)
             q == DecodeRemote(text)
  <1>1. CASE t = Invalid
    <2>1. q = Invalid
      BY <1>1 DEF DecodeRemote
    <2> QED
      BY <2>1 DEF Decodable
  <1>2. CASE t # Invalid
    <2>1. q \in {Invalid, d}
      BY <1>2 DEF DecodeRemote
    <2>2. /\ d \in Record /\ r \in Record
          /\ d.localHost = Or(t.localHost, IF t.socks THEN "127.0.0.1" ELSE "0.0.0.0")
          /\ d.remoteHost = IF t.socks THEN t.remoteHost ELSE Or(t.remoteHost, "127.0.0.1")
      BY <1>2, DefaultsHas DEF Decoded
    <2> HIDE DEF d
    <2>3. ~Alike(d, r)
      BY <1>2, <2>2 DEF Alike, Or
    <2>4. Meaning(d) # Meaning(r)
      BY <2>2, <2>3, MeaningIsAlike
    <2> QED
      BY <2>1, <2>4 DEF Decodable
  <1> QED
    BY <1>1, <1>2

(* What is left of a host that ends in a protocol is another word.         *)
LEMMA HostLosesProto ==
    ASSUME NEW w \in Word, ~Plain(w)
    PROVE  L4Proto[w].word # w /\ w \notin Port \cup Keyword \cup {""}
PROOF
  BY L4ProtoAssumption DEF Plain

(* A local host is read last, behind the remote one: what is left of it    *)
(* comes back, or the default.                                             *)
LEMMA LocalHostLost ==
    ASSUME NEW r, Decoded(r), ~r.stdio, ~Plain(r.localHost)
    PROVE  ~Decodable(r) /\ Unwritable(r)
PROOF
  <1> DEFINE lh == r.localHost
             lp == r.localPort
             rh == r.remoteHost
             far == Suffixed(r, r.remotePort)
             b == Blank(r.reverse)
  <1>1. r.reverse \in BOOLEAN /\ lh \in Host /\ lp \in Port /\ lh \in Word
    BY WordAssumption DEF Decoded, Record
  <1>2. /\ L4Proto[lh].word # lh
        /\ lh \notin {"", "R", "127.0.0.1", "0.0.0.0", "stdio", "socks"}
    BY <1>1, HostLosesProto DEF Keyword
  <1>3. /\ lp \in Word /\ L4Proto[lp].word = lp
    BY <1>1, L4ProtoAssumption, WordAssumption
  <1>4. Has(b, "", "", "", "", "", FALSE, FALSE, r.reverse)
    BY <1>1, BlankHas
  <1>9. ASSUME NEW t, NEW u, NEW n, t # Invalid => t \in Record /\ t.localHost = "",
               u = TakePart(t, lh, 1, n)
        PROVE  u # Invalid => u \in Record /\ u.localHost # lh
    <2>1. CASE t = Invalid
      BY <1>9, <2>1, InvalidStays
    <2>2. CASE t # Invalid /\ u # Invalid
      <3>1. Leaves(u, t, L4Proto[lh].word)
        BY <1>1, <1>9, <2>2, TakePartHosts
      <3> QED
        BY <1>2, <1>9, <2>2, <3>1 DEF Leaves
    <2> QED
      BY <2>1, <2>2
  <1>5. CASE r.socks
    <2> DEFINE parts == <<lh, lp, "socks">>
               text == [reverse |-> r.reverse, parts |-> parts]
               t1 == TakePart(b, "socks", 3, 3)
               t2 == TakePart(t1, lp, 2, 3)
               t3 == TakePart(t2, lh, 1, 3)
    <2>1. Encode(r) = text
      BY <1>1, <1>2, <1>5, EncodeForms, WrittenPlain
    <2>2. Taken(text) = t3
      BY TakenOfThree, Zenon
    <2>3. Has(t1, "", "", "", "", "", TRUE, FALSE, r.reverse)
      BY <1>4, TakeSocks, Zenon
    <2> HIDE DEF t1
    <2>4. Has(t2, "", lp, "", "", "", TRUE, FALSE, r.reverse)
      BY <1>1, <2>3, Positions, TakeNearPort, Zenon
    <2> HIDE DEF t2
    <2>5. t2 \in Record /\ t2.localHost = ""
      BY <2>4 DEF Has
    <2>6. t3 # Invalid => t3 \in Record /\ t3.localHost # lh
      BY <1>9, <2>5
    <2> HIDE DEF t3, text
    <2> QED
      BY <1>2, <2>1, <2>2, <2>6, Refuted DEF Unwritable
  <1>6. CASE ~r.socks
    <2> DEFINE parts == <<lh, lp, rh, far>>
               text == [reverse |-> r.reverse, parts |-> parts]
               t1 == TakePart(b, far, 4, 4)
               t2 == TakePart(t1, rh, 3, 4)
               t3 == TakePart(t2, lp, 2, 4)
               t4 == TakePart(t3, lh, 1, 4)
    <2>1. Encode(r) = text
      BY <1>1, <1>2, <1>6, EncodeForms, WrittenPlain
    <2>2. Taken(text) = t4
      BY TakenOfFour, Zenon
    <2>3. Has(t1, "", r.remotePort, "", r.remotePort, Suffix(r), FALSE, FALSE, r.reverse)
      <3>1. /\ r.remotePort \in Port /\ Suffix(r) \in Proto
            /\ L4Proto[far] = [word |-> r.remotePort, proto |-> Suffix(r)]
        BY <1>6, SuffixedPort, ProtoAssumption DEF Decoded, Record, Suffix
      <3> HIDE DEF far, b
      <3> QED
        BY <1>4, <3>1, Positions, TakeFarPort, Zenon
    <2> HIDE DEF t1
    <2>4. t1 \in Record /\ ~t1.socks /\ t1.remoteHost = "" /\ t1.localHost = ""
      BY <2>3 DEF Has
    <2>5. t2 # Invalid => t2 \in Record /\ t2.localHost = ""
      <3>1. rh \in Word
        BY WordAssumption DEF Decoded, Record
      <3> HIDE DEF rh
      <3>2. t2 # Invalid => Leaves(t2, t1, L4Proto[rh].word)
        BY <2>4, <3>1, TakePartHosts, Zenon
      <3> QED
        BY <2>4, <3>2 DEF Leaves
    <2> HIDE DEF t2
    <2>6. t3 # Invalid => t3 \in Record /\ t3.localHost = ""
      <3>1. CASE t2 = Invalid
        BY <3>1, InvalidStays
      <3>2. CASE t2 # Invalid
        <4>1. t2 \in Record /\ t2.localHost = "" /\ lp \in Word /\ L4Proto[lp].word \in Port
          BY <1>1, <1>3, <2>5, <3>2
        <4> HIDE DEF lp
        <4>2. t3 # Invalid => Leaves(t3, t2, L4Proto[lp].word)
          BY <4>1, TakePartHosts, Zenon
        <4> QED
          BY <4>1, <4>2 DEF Leaves
      <3> QED
        BY <3>1, <3>2
    <2> HIDE DEF t3
    <2>7. t4 # Invalid => t4 \in Record /\ t4.localHost # lh
      BY <1>9, <2>6
    <2> HIDE DEF t4, text
    <2> QED
      BY <1>2, <2>1, <2>2, <2>7, Refuted DEF Unwritable
  <1> QED
    BY <1>5, <1>6

(* A remote host comes back as what is left of it, or as a word that never *)
(* had a protocol.                                                         *)
LEMMA RemoteHostLost ==
    ASSUME NEW r, Decoded(r), ~r.socks, ~Plain(r.remoteHost),
           r.stdio \/ Plain(r.localHost),
           r.stdio \/ r.reverse \/ r.localHost # "R"
    PROVE  ~Decodable(r) /\ Unwritable(r)
PROOF
  <1> DEFINE lh == r.localHost
             lp == r.localPort
             rh == r.remoteHost
             far == Suffixed(r, r.remotePort)
             b == Blank(r.reverse)
  <1>1. /\ r.reverse \in BOOLEAN /\ rh \in Host /\ rh \in Word /\ lh \in Word
        /\ ~r.stdio => lp \in Port
    BY WordAssumption DEF Decoded, Record
  <1>2. L4Proto[rh].word # rh /\ rh \notin {"", "127.0.0.1", "stdio"}
    BY <1>1, HostLosesProto DEF Keyword
  <1>3. r.remotePort # ""
    BY <1>2 DEF Decoded
  <1>4. Has(b, "", "", "", "", "", FALSE, FALSE, r.reverse)
    BY <1>1, BlankHas
  <1>5. /\ r.remotePort \in Port /\ Suffix(r) \in Proto
        /\ L4Proto[far] = [word |-> r.remotePort, proto |-> Suffix(r)]
    BY <1>3, SuffixedPort, ProtoAssumption DEF Decoded, Record, Suffix
  <1>6. ASSUME NEW t, NEW w \in Word, L4Proto[w].word # rh, NEW i, NEW n,
               t # Invalid => t \in Record /\ t.remoteHost # rh
        PROVE  LET u == TakePart(t, w, i, n)
               IN  u # Invalid => u \in Record /\ u.remoteHost # rh
    <2>1. CASE t = Invalid
      BY <2>1, InvalidStays
    <2>2. CASE t # Invalid
      <3> DEFINE u == TakePart(t, w, i, n)
                 h == L4Proto[w].word
      <3>1. t \in Record /\ t.remoteHost # rh /\ h # rh
        BY <1>6, <2>2
      <3> HIDE DEF rh
      <3>2. u # Invalid => Leaves(u, t, h)
        BY <3>1, TakePartHosts, Zenon
      <3> HIDE DEF u, h
      <3>3. u # Invalid => u \in Record /\ u.remoteHost # rh
        BY <3>1, <3>2 DEF Leaves
      <3> QED
        BY <3>3 DEF u
    <2> QED
      BY <2>1, <2>2
  <1>7. ASSUME NEW n, n # 1
        PROVE  LET t1 == TakePart(b, far, n, n)
               IN  t1 # Invalid => t1 \in Record /\ t1.remoteHost # rh
    <2>1. Has(TakePart(b, far, n, n), "", r.remotePort, "", r.remotePort, Suffix(r),
              FALSE, FALSE, r.reverse)
      <3> HIDE DEF far, b
      <3> QED
        BY <1>4, <1>5, <1>7, TakeFarPort, Zenon
    <2> QED
      BY <1>2, <2>1 DEF Has
  <1>8. CASE r.stdio
    <2> DEFINE parts == <<"stdio", rh, far>>
               text == [reverse |-> r.reverse, parts |-> parts]
               t1 == TakePart(b, far, 3, 3)
               t2 == TakePart(t1, rh, 2, 3)
               t3 == TakePart(t2, "stdio", 1, 3)
    <2>1. Encode(r) = text
      BY <1>1, <1>3, <1>8, EncodeForms, WrittenPlain
    <2>2. Taken(text) = t3
      BY TakenOfThree, Zenon
    <2>3. t1 # Invalid => t1 \in Record /\ t1.remoteHost # rh
      BY <1>7, Positions
    <2> HIDE DEF t1
    <2>4. t2 # Invalid => t2 \in Record /\ t2.remoteHost # rh
      BY <1>1, <1>2, <1>6, <2>3
    <2> HIDE DEF t2
    <2>5. "stdio" \in Word /\ L4Proto["stdio"].word = "stdio"
      BY WordAssumption, L4ProtoAssumption DEF Keyword
    <2>6. t3 # Invalid => t3 \in Record /\ t3.remoteHost # rh
      BY <1>2, <1>6, <2>4, <2>5
    <2> HIDE DEF t3, text
    <2> QED
      BY <1>2, <2>1, <2>2, <2>6, Refuted DEF Unwritable
  <1>9. CASE ~r.stdio
    <2> DEFINE parts == <<lh, lp, rh, far>>
               text == [reverse |-> r.reverse, parts |-> parts]
               t1 == TakePart(b, far, 4, 4)
               t2 == TakePart(t1, rh, 3, 4)
               t3 == TakePart(t2, lp, 2, 4)
               t4 == TakePart(t3, lh, 1, 4)
    <2>1. Encode(r) = text
      BY <1>1, <1>9, EncodeForms, WrittenPlain
    <2>2. Taken(text) = t4
      BY TakenOfFour, Zenon
    <2>3. t1 # Invalid => t1 \in Record /\ t1.remoteHost # rh
      BY <1>7, Positions
    <2> HIDE DEF t1
    <2>4. t2 # Invalid => t2 \in Record /\ t2.remoteHost # rh
      BY <1>1, <1>2, <1>6, <2>3
    <2> HIDE DEF t2
    <2>5. lp \in Word /\ L4Proto[lp].word = lp /\ lp # rh
      BY <1>1, <1>9, L4ProtoAssumption, WordAssumption
    <2>6. t3 # Invalid => t3 \in Record /\ t3.remoteHost # rh
      BY <1>6, <2>4, <2>5
    <2> HIDE DEF t3
    <2>7. L4Proto[lh].word = lh /\ lh # rh
      BY <1>1, <1>9, L4ProtoAssumption
    <2>8. t4 # Invalid => t4 \in Record /\ t4.remoteHost # rh
      BY <1>1, <1>6, <2>6, <2>7
    <2> HIDE DEF t4, text
    <2> QED
      BY <1>2, <2>1, <2>2, <2>8, Refuted DEF Unwritable
  <1> QED
    BY <1>8, <1>9

(* What Encode writes DecodeRemote reads, and finds the same remote, of    *)
(* every remote it has answered itself but those of Unwritable.            *)
THEOREM DecodedIsDecodable ==
    ASSUME NEW r, Decoded(r)
    PROVE  Decodable(r) <=> ~Unwritable(r)
PROOF
  <1>1. CASE r.stdio /\ r.socks
    BY <1>1, StdioSocksDecodable
  <1>2. CASE r.stdio /\ ~r.socks /\ r.remotePort # "" /\ Plain(r.remoteHost)
    BY <1>2, StdioAddressDecodable
  <1>3. CASE r.stdio /\ ~r.socks /\ r.remotePort = ""
    BY <1>3, StdioAloneRefused
  <1>4. CASE ~r.stdio /\ ~r.reverse /\ r.localHost = "R"
    BY <1>4, PrefixMistaken
  <1>5. CASE ~r.stdio /\ ~Plain(r.localHost)
    BY <1>5, LocalHostLost
  <1>6. CASE ~r.stdio /\ r.socks /\ (r.reverse \/ r.localHost # "R") /\ Plain(r.localHost)
    BY <1>6, AddressSocksDecodable
  <1>7. CASE /\ ~r.stdio /\ ~r.socks /\ (r.reverse \/ r.localHost # "R")
             /\ Plain(r.localHost) /\ Plain(r.remoteHost)
    BY <1>7, AddressesDecodable
  <1>8. CASE /\ ~r.socks /\ ~Plain(r.remoteHost)
             /\ r.stdio \/ Plain(r.localHost)
             /\ r.stdio \/ r.reverse \/ r.localHost # "R"
    BY <1>8, RemoteHostLost
  <1> QED
    BY <1>1, <1>2, <1>3, <1>4, <1>5, <1>6, <1>7, <1>8, Zenon

-----------------------------------------------------------------------------
(* RemotesDecodable: a remote that DecodeRemote has answered can be        *)
(* written and read again unless it is of a family of Unwritable, and      *)
(* never if it is, whatever the texts.                                     *)
THEOREM RemotesAlwaysDecodable == Spec => []RemotesDecodable
PROOF
  <1>1. ASSUME NEW r \in Wanted PROVE Decoded(r)
    <2>1. PICK text \in Text : r = DecodeRemote(text) /\ r # Invalid
      BY DEF Wanted
    <2>2. text \in [reverse : BOOLEAN, parts : Seq(Word)]
      BY TextAssumption
    <2> QED
      BY <2>1, <2>2, DecodedShape
  <1>2. RemotesDecodable
    BY <1>1, DecodedIsDecodable DEF RemotesDecodable, Misread
  <1> QED
    BY <1>2, PTL

(* AccessOfOwnUser: what is let through of a config is what the user has   *)
(* access to whose name and password the client gave to authUser           *)
(* (server.go), though the callback, the lookup and the reloads are        *)
(* separate steps, and whatever addresses the config holds.                *)
THEOREM AccessAlwaysOfOwnUser == Spec => []AccessOfOwnUser
PROOF
  <1>1. AInv => AccessOfOwnUser
    BY DEF AInv, UserHeld, LastAllowed, Identified, AccessOfOwnUser
  <1> QED
    BY <1>1, AuthInvariant, PTL
=============================================================================
