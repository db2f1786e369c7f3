-------------------------------- MODULE Auth --------------------------------
(***************************************************************************)
(* Users and their sessions: the index of users that is loaded from a file *)
(* and loaded again when the file is written (share/settings/users.go),    *)
(* the password callback (server/server.go, authUser), and the part of a   *)
(* session that takes its user from the table of sessions and checks the   *)
(* remotes against it (server/server_handler.go).                          *)
(*                                                                         *)
(* The callback and the session read the index separately, and a reload    *)
(* may come between any two reads.  A user is a record: the code never     *)
(* changes one, it replaces the map.  The file is what somebody last wrote *)
(* there; a content that does not parse is Malformed.                      *)
(*                                                                         *)
(* Left out: AddUser, DeleteUser and ResetUsers of the server, which are   *)
(* for programs that embed it.                                             *)
(***************************************************************************)
EXTENDS Remote

CONSTANTS
    User,           \* records [name, pass, addrs]; addrs are patterns
    NoUser,
    Text,           \* what clients may be told to open
    Addr,           \* the addresses of the remotes clients may send
    Content,        \* the sets of users a file may list
    Malformed,      \* a file that is not a valid list
    NoContent,      \* no load is under way
    AuthUser,       \* the user of --auth, or NoUser
    Session

(* The remotes of a client that was told to open one of the texts.  The    *)
(* server does not decode: it takes the records a client sends as they     *)
(* are, of this set or not, and what it checks of one is its UserAddr.     *)
Wanted == {DecodeRemote(t) : t \in Text} \ {Invalid}

Name == {u.name : u \in User}
Pass == {u.pass : u \in User}

ASSUME UserAssumption ==
    /\ NoUser \notin User
    /\ AuthUser \in User \cup {NoUser}
ASSUME TextAssumption == Text \subseteq [reverse : BOOLEAN, parts : Seq(Word)]
ASSUME ContentAssumption ==
    /\ Content \subseteq SUBSET User
    /\ {Malformed, NoContent} \cap Content = {}

VARIABLES
    users,      \* UserIndex: [Name -> User or NoUser]
    file,       \* what the file holds
    read,       \* what loadUserIndex has read and not yet swapped in
    loaded,     \* history: what the index was last loaded from
    event,      \* a write event waits in watcher.Events
    boot,       \* the step of NewServer
    watched,    \* the watch is on the file
    step,       \* [Session -> its next step]
    login,      \* [Session -> the name and password the client sent]
    table,      \* Server.sessions: [Session -> User or NoUser]
    user,       \* [Session -> the user handleWebsocket found, or NoUser]
    wanted,     \* [Session -> the address let through last, if any]
    opened      \* history: sessions during whose handshake there was no user

indexVars == <<users, file, read, loaded, event, boot, watched>>
sessionVars == <<step, login, table, user, wanted>>
vars == <<indexVars, sessionVars, opened>>

Users == [Name -> User \cup {NoUser}]

NobodyThere == [x \in Name |-> NoUser]

Empty(index) == index = NobodyThere         \* Len() == 0

(* The maps a set of users may become: the file is a map from "name:pass", *)
(* so that a name may come twice, and the order of a map is any order.     *)
MapsOf(S) ==
    {f \in Users : \A x \in Name :
        IF \E u \in S : u.name = x
        THEN f[x] \in {u \in S : u.name = x}
        ELSE f[x] = NoUser}

Init ==
    /\ users = NobodyThere
    /\ file \in Content
    /\ read = NoContent /\ loaded = {}
    /\ event = FALSE
    /\ boot \in {"load", "auth"}        \* with and without --authfile
    /\ watched = FALSE
    /\ step = [s \in Session |-> "idle"]
    /\ login \in [Session -> [name : Name, pass : Pass]]
    /\ table = [s \in Session |-> NoUser]
    /\ user = [s \in Session |-> NoUser]
    /\ wanted = [s \in Session |-> {}]
    /\ opened = {}

(* A session is in its handshake from its password to its lookup.          *)
Handshaking(s) == step[s] \in {"password", "get", "lookup", "take"}

(* Every action that changes the index or starts a handshake notes who     *)
(* sees the index empty.                                                   *)
NoteEmpty ==
    opened' = opened \cup
        IF Empty(users') THEN {s \in Session : Handshaking(s) \/ Handshaking(s)'}
                         ELSE {}

-----------------------------------------------------------------------------
(* NewServer: load the file, put the watch on it, add the user of --auth.  *)
(* A file that does not load stops the server.                             *)
BootLoad ==
    /\ boot = "load"
    /\ file # Malformed
    /\ users' \in MapsOf(file)
    /\ loaded' = file
    /\ boot' = "watch"
    /\ UNCHANGED <<file, read, event, watched, sessionVars>>
    /\ NoteEmpty

BootWatch ==
    /\ boot = "watch"
    /\ watched' = TRUE
    /\ boot' = "auth"
    /\ UNCHANGED <<users, file, read, loaded, event, sessionVars, opened>>

BootAuth ==
    /\ boot = "auth"
    /\ users' = IF AuthUser = NoUser THEN users
                ELSE [users EXCEPT ![AuthUser.name] = AuthUser]
    /\ boot' = "up"
    /\ UNCHANGED <<file, read, loaded, event, watched, sessionVars>>
    /\ NoteEmpty

(* Somebody writes the file, or puts another in its place: the watch is on *)
(* the file itself, and the events of a replacement are not writes.        *)
WriteFile ==
    /\ boot # "load"
    /\ file' \in Content \cup {Malformed}
    /\ event' = (event \/ watched)
    /\ UNCHANGED <<users, read, loaded, boot, watched, sessionVars, opened>>

ReplaceFile ==
    /\ watched
    /\ file' \in Content \cup {Malformed}
    /\ watched' = FALSE
    /\ UNCHANGED <<users, read, loaded, event, boot, sessionVars, opened>>

(* Mutant: the event is taken and the file is not read.                    *)
ReloadRead_Skips ==
    /\ event /\ read = NoContent
    /\ event' = FALSE
    /\ UNCHANGED <<users, file, read, loaded, boot, watched, sessionVars, opened>>

(* Mutant: the error of the parser is not returned.                        *)
ReloadRead_NoParse ==
    /\ event /\ read = NoContent
    /\ event' = FALSE
    /\ read' = file
    /\ UNCHANGED <<users, file, loaded, boot, watched, sessionVars, opened>>

(* The watch goroutine: an event, the file, the swap.  A malformed file    *)
(* changes nothing.                                                        *)
ReloadRead ==
    /\ event /\ read = NoContent
    /\ event' = FALSE
    /\ read' = IF file = Malformed THEN NoContent ELSE file
    /\ UNCHANGED <<users, file, loaded, boot, watched, sessionVars, opened>>

(* Mutant: the new users are added to the old map.                         *)
ReloadSwap_Merges ==
    /\ read # NoContent
    /\ \E f \in MapsOf(read) :
         users' = [x \in Name |-> IF f[x] = NoUser THEN users[x] ELSE f[x]]
    /\ loaded' = read
    /\ read' = NoContent
    /\ UNCHANGED <<file, event, boot, watched, sessionVars>>
    /\ NoteEmpty

ReloadSwap ==
    /\ read # NoContent
    /\ users' \in MapsOf(read)
    /\ loaded' = read
    /\ read' = NoContent
    /\ UNCHANGED <<file, event, boot, watched, sessionVars>>
    /\ NoteEmpty

-----------------------------------------------------------------------------
GoTo(s, next) == step' = [step EXCEPT ![s] = next]

(* A client sends its name and password.                                   *)
Connect(s) ==
    /\ boot = "up" /\ step[s] = "idle"
    /\ GoTo(s, "password")
    /\ UNCHANGED <<indexVars, login, table, user, wanted>>
    /\ NoteEmpty

(* authUser: "if user authentication is [not] enabled, allow all".         *)
AuthEnabled(s) ==
    /\ step[s] = "password"
    /\ GoTo(s, IF Empty(users) THEN "lookup" ELSE "get")
    /\ UNCHANGED <<indexVars, login, table, user, wanted>>
    /\ NoteEmpty

(* Mutant: the password is not compared.                                   *)
AuthUserFound_AnyPass(s) ==
    /\ step[s] = "get"
    /\ LET u == users[login[s].name]
       IN  /\ u # NoUser
           /\ table' = [table EXCEPT ![s] = u]
    /\ GoTo(s, "lookup")
    /\ UNCHANGED <<indexVars, login, user, wanted>>
    /\ NoteEmpty

AuthUserFound(s) ==
    /\ step[s] = "get"
    /\ LET u == users[login[s].name]
       IN  /\ u # NoUser /\ u.pass = login[s].pass
           /\ table' = [table EXCEPT ![s] = u]
    /\ GoTo(s, "lookup")
    /\ UNCHANGED <<indexVars, login, user, wanted>>
    /\ NoteEmpty

AuthFails(s) ==
    /\ step[s] = "get"
    /\ LET u == users[login[s].name]
       IN  u # NoUser => u.pass # login[s].pass
    /\ GoTo(s, "failed")
    /\ UNCHANGED <<indexVars, login, table, user, wanted>>
    /\ NoteEmpty

(* The connection is lost before the handshake is over: the entry stays.   *)
HandshakeLost(s) ==
    /\ step[s] = "lookup"
    /\ GoTo(s, "failed")
    /\ UNCHANGED <<indexVars, login, table, user, wanted>>
    /\ NoteEmpty

(* handleWebsocket: "pull the users from the session map".                 *)
Lookup(s) ==
    /\ step[s] = "lookup"
    /\ GoTo(s, IF Empty(users) THEN "config" ELSE "take")
    /\ UNCHANGED <<indexVars, login, table, user, wanted>>
    /\ NoteEmpty

(* Mutant: the entry is not deleted.                                       *)
Take_Keeps(s) ==
    /\ step[s] = "take"
    /\ GoTo(s, IF table[s] = NoUser THEN "panicked" ELSE "config")
    /\ user' = [user EXCEPT ![s] = table[s]]
    /\ UNCHANGED <<indexVars, login, table, wanted>>
    /\ NoteEmpty

(* The panic "bug in ssh auth handler" ends the handler; net/http recovers *)
(* from it, and the connection stays.                                      *)
Take(s) ==
    /\ step[s] = "take"
    /\ GoTo(s, IF table[s] = NoUser THEN "panicked" ELSE "config")
    /\ user' = [user EXCEPT ![s] = table[s]]
    /\ table' = [table EXCEPT ![s] = NoUser]
    /\ UNCHANGED <<indexVars, login, wanted>>
    /\ NoteEmpty

(* A pattern is the set of the addresses it matches.                       *)
HasAccess(u, addr) == \E pattern \in u.addrs : addr \in pattern

(* The remotes of the config, one after the other; the first that is       *)
(* refused ends the session.                                               *)
CheckRemote(s) ==
    /\ step[s] \in {"config", "admitted"}
    /\ \E addr \in Addr :
         IF user[s] = NoUser \/ HasAccess(user[s], addr)
         THEN GoTo(s, "admitted") /\ wanted' = [wanted EXCEPT ![s] = {addr}]
         ELSE GoTo(s, "failed") /\ wanted' = [wanted EXCEPT ![s] = {}]
    /\ UNCHANGED <<indexVars, login, table, user, opened>>

-----------------------------------------------------------------------------
Boot == BootLoad \/ BootWatch \/ BootAuth

SessionStep(s) ==
    \/ Connect(s) \/ AuthEnabled(s) \/ AuthUserFound(s) \/ AuthFails(s)
    \/ HandshakeLost(s) \/ Lookup(s) \/ Take(s)
    \/ CheckRemote(s)

Next ==
    \/ Boot
    \/ WriteFile \/ ReplaceFile
    \/ ReloadRead \/ ReloadSwap
    \/ \E s \in Session : SessionStep(s)

Spec == Init /\ [][Next]_vars

(* The watch goroutine runs.                                               *)
FairSpec == Spec /\ WF_vars(ReloadRead \/ ReloadSwap)

-----------------------------------------------------------------------------
(* The variables are well formed.                                          *)
TypeOK ==
    /\ users \in Users
    /\ file \in Content \cup {Malformed}
    /\ read \in Content \cup {NoContent}
    /\ loaded \in Content \cup {{}}
    /\ event \in BOOLEAN /\ watched \in BOOLEAN
    /\ boot \in {"load", "watch", "auth", "up"}
    /\ step \in [Session -> {"idle", "password", "get", "lookup", "take", "config",
                             "admitted", "failed", "panicked"}]
    /\ login \in [Session -> [name : Name, pass : Pass]]
    /\ table \in [Session -> User \cup {NoUser}]
    /\ user \in [Session -> User \cup {NoUser}]
    /\ wanted \in [Session -> SUBSET Addr]
    /\ opened \subseteq Session

(* A remote of the config is let through only to a session that gave the   *)
(* name and the password of a user who has access to its address, whatever *)
(* was loaded meanwhile, unless the server had no users at some time       *)
(* during the handshake.  (Only the remotes of the config are checked.     *)
(* Nobody compares with them what a client later asks for in the extra     *)
(* data of a channel.)                                                     *)
AccessOfOwnUser ==
    \A s \in Session :
        step[s] = "admitted" /\ s \notin opened =>
            \E u \in User : /\ u.name = login[s].name /\ u.pass = login[s].pass
                            /\ \A addr \in wanted[s] : HasAccess(u, addr)

(* The addresses of decoded remotes about which Unwritable is wrong.       *)
Misread == {UserAddr(r) : r \in {q \in Wanted : Decodable(q) <=> Unwritable(q)}}

(* A remote that DecodeRemote has answered can be written and read again,  *)
(* but for the families of Unwritable, of which it never can: no session   *)
(* is let through with the address of one of which this is not so.         *)
RemotesDecodable == \A s \in Session : wanted[s] \cap Misread = {}

(* The table of sessions holds no entry of a session that is past it, for  *)
(* the same exception.                                                     *)
TableEmptied ==
    \A s \in Session :
        step[s] \in {"config", "admitted", "panicked"} /\ s \notin opened =>
            table[s] = NoUser

(* The index is that of one file, and not a mixture of two: a user who is  *)
(* gone from the file is gone from the index, the user of --auth excepted. *)
IndexOfOneFile ==
    \E f \in MapsOf(loaded) :
        \A x \in Name :
            users[x] = f[x] \/ (AuthUser # NoUser /\ users[x] = AuthUser)

(* "This file will be automatically reloaded on change" (README.md:149): a *)
(* write the watch has seen is followed by a load of what was written, or  *)
(* of what was written later.                                              *)
WrittenIsLoaded ==
    \A S \in Content : (event /\ file = S) ~> (loaded = S \/ file # S)

(* server_handler.go:81 panics with "bug in ssh auth handler" when a       *)
(* session that passed the callback has no entry in the table.             *)
NoAuthBug == \A s \in Session : step[s] # "panicked"
=============================================================================
