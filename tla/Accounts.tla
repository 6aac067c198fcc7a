------------------------------ MODULE Accounts ------------------------------
(* The users table: who may do what, whose account is active, and the one refresh
   token an account accepts. src/modules/auth/auth.service.ts,
   src/modules/users/users.service.ts, and what the supplier services do to an
   account. A handler is cut between the read it decides from and its write. *)
CONSTANTS
  Users,           \* accounts, or the addresses they may be registered under
  Tokens,          \* bound: the refresh tokens that are ever signed
  NoToken,         \* no refresh token is accepted
  FirstAdmins,     \* the accounts the database starts with
  Calls            \* requests the server may be handling at once

Roles == {"CUSTOMER", "SUPPLIER", "ADMIN"}

ASSUME AccountsAssumption ==
  /\ NoToken \notin Tokens
  /\ FirstAdmins \subseteq Users /\ FirstAdmins # {}

VARIABLES
  role,            \* users.role, or "NONE": no account under this address
  active,          \* users.is_active
  session,         \* the token behind users.refresh_token_hash
  signed,          \* tokens that have been handed out
  call             \* what each request is about to do, with what it remembers

tables == <<role, active, session, signed>>
vars == <<tables, call>>

\* what an admin asks for: a field left out of the request is "same"
Edits == [role : Roles \cup {"same"}, active : {"on", "off", "same"}]
         \ {[role |-> "same", active |-> "same"]}

InFlight ==
  [pc : {"idle"}]
  \cup [pc : {"start", "logout", "promote"}, user : Users]
  \cup [pc : {"edit"}, by : Users, user : Users, edit : Edits]

TypeOK ==
  /\ role \in [Users -> Roles \cup {"NONE"}]
  /\ active \in [Users -> BOOLEAN]
  /\ session \in [Users -> Tokens \cup {NoToken}]
  /\ signed \subseteq Tokens
  /\ call \in [Calls -> InFlight]

Init ==
  /\ role = [u \in Users |-> IF u \in FirstAdmins THEN "ADMIN" ELSE "NONE"]
  /\ active = [u \in Users |-> TRUE]
  /\ session = [u \in Users |-> NoToken]
  /\ signed = {}
  /\ call = [c \in Calls |-> [pc |-> "idle"]]

-----------------------------------------------------------------------------
At(c, pc) == call[c].pc = pc
Goes(c, local) == call' = [call EXCEPT ![c] = local]
Answers(c) == Goes(c, [pc |-> "idle"])

\* jwt.strategy's validate, before every handler that needs a signed-in user
SignedIn(u) == role[u] # "NONE" /\ active[u]

\* register, and the transaction of a supplier application: an account that is
\* there stays there, so the lookup and the unique index say the same.
Register(c, u, r) ==
  /\ At(c, "idle")
  /\ r # "ADMIN"
  /\ role[u] = "NONE"
  /\ role' = [role EXCEPT ![u] = r]
  /\ active' = [active EXCEPT ![u] = TRUE]
  /\ Goes(c, [pc |-> "start", user |-> u])
  /\ UNCHANGED <<session, signed>>

\* the password is right, and the row that was read is active
Login(c, u) ==
  /\ At(c, "idle")
  /\ SignedIn(u)
  /\ Goes(c, [pc |-> "start", user |-> u])
  /\ UNCHANGED tables

\* refreshTokens: the client shows a token, which must be the accepted one
Refresh(c, u, t) ==
  /\ At(c, "idle")
  /\ SignedIn(u) /\ session[u] = t
  /\ Goes(c, [pc |-> "start", user |-> u])
  /\ UNCHANGED tables

\* generateTokens and updateRefreshTokenHash: whatever has become of the account,
\* the new token is the one it accepts from now on
StartSession(c) ==
  /\ At(c, "start")
  /\ \E t \in Tokens \ signed :
       /\ signed' = signed \cup {t}
       /\ session' = [session EXCEPT ![call[c].user] = t]
  /\ Answers(c)
  /\ UNCHANGED <<role, active>>

LogoutBegins(c, u) ==
  /\ At(c, "idle")
  /\ SignedIn(u)
  /\ Goes(c, [pc |-> "logout", user |-> u])
  /\ UNCHANGED tables

Logout(c) ==
  /\ At(c, "logout")
  /\ session' = [session EXCEPT ![call[c].user] = NoToken]
  /\ Answers(c)
  /\ UNCHANGED <<role, active, signed>>

-----------------------------------------------------------------------------
\* adminUpdateUser: no admin deactivates or demotes itself
MutSparesSelf(by, u, edit) == by = u => edit.active # "off"
SparesSelf(by, u, edit) ==
  by = u => edit.active # "off" /\ edit.role \in {"ADMIN", "same"}

EditRead(c, by, u, edit) ==
  /\ At(c, "idle")
  /\ SignedIn(by) /\ role[by] = "ADMIN"
  /\ role[u] # "NONE"
  /\ SparesSelf(by, u, edit)
  /\ Goes(c, [pc |-> "edit", by |-> by, user |-> u, edit |-> edit])
  /\ UNCHANGED tables

RoleAfter(u, edit) == IF edit.role = "same" THEN role[u] ELSE edit.role

ActiveAfter(u, edit) == IF edit.active = "same" THEN active[u] ELSE edit.active = "on"

\* deactivating also ends the session
MutSessionAfter(u, edit) == session[u]
SessionAfter(u, edit) == IF edit.active = "off" THEN NoToken ELSE session[u]

EditWrite(c) ==
  LET u == call[c].user
      edit == call[c].edit
  IN
  /\ At(c, "edit")
  /\ role' = [role EXCEPT ![u] = RoleAfter(u, edit)]
  /\ active' = [active EXCEPT ![u] = ActiveAfter(u, edit)]
  /\ session' = [session EXCEPT ![u] = SessionAfter(u, edit)]
  /\ Answers(c)
  /\ UNCHANGED signed

\* createOrUpdateProfile makes a supplier of a customer who describes a depot
MutIsPromoted(u) == role[u] # "SUPPLIER"
IsPromoted(u) == role[u] = "CUSTOMER"

PromoteRead(c, u) ==
  /\ At(c, "idle")
  /\ SignedIn(u)
  /\ IsPromoted(u)
  /\ Goes(c, [pc |-> "promote", user |-> u])
  /\ UNCHANGED tables

Promote(c) ==
  /\ At(c, "promote")
  /\ role' = [role EXCEPT ![call[c].user] = "SUPPLIER"]
  /\ Answers(c)
  /\ UNCHANGED <<active, session, signed>>

-----------------------------------------------------------------------------
\* the server stops, or the database does not answer: nothing more is written
Crash(c) == ~At(c, "idle") /\ Answers(c) /\ UNCHANGED tables

Next ==
  \E c \in Calls :
    \/ StartSession(c) \/ Logout(c) \/ EditWrite(c) \/ Promote(c) \/ Crash(c)
    \/ \E u \in Users :
         \/ \E r \in Roles : Register(c, u, r)
         \/ Login(c, u) \/ LogoutBegins(c, u) \/ PromoteRead(c, u)
         \/ \E t \in Tokens : Refresh(c, u, t)
         \/ \E by \in Users, edit \in Edits : EditRead(c, by, u, edit)

Spec == Init /\ [][Next]_vars

-----------------------------------------------------------------------------
(* What the code keeps although a request decides from rows it does not lock. *)
Admins == {u \in Users : role[u] = "ADMIN" /\ active[u]}

\* c is the request that moves in this step
Moves(c) == call'[c] # call[c]
About(c, pc, u) == At(c, pc) /\ call[c].user = u

(* The admins cannot lock themselves out (users.service.ts:49): the last of them
   falls only to a request that lost its ground while it was in flight, an edit
   whose author had itself just been unmade, or the promotion of a customer whom
   another admin had just made an admin. *)
LastAdminStands ==
  [][Admins # {} /\ Admins' = {} =>
       \E c \in Calls :
         /\ Moves(c)
         /\ \/ At(c, "edit") /\ call[c].by \notin Admins
            \/ At(c, "promote") /\ call[c].user \in Admins]_vars

\* deactivated, with no token accepted and no login or refresh on its way
ShutOut(u) ==
  /\ ~active[u] /\ session[u] = NoToken
  /\ \A c \in Calls : ~About(c, "start", u)

(* Deactivating an account ends its session (users.service.ts:82), and once the
   logins and refreshes that had read it active are through, it accepts no token
   again before it is activated: activating it brings back none from before. *)
DeactivationEndsSession ==
  [][\A u \in Users :
       /\ active[u] /\ ~active'[u] => session'[u] = NoToken
       /\ ShutOut(u) => ShutOut(u)' \/ active'[u]]_vars

\* an admin nobody is about to make a supplier of
AdminForGood(u) == role[u] = "ADMIN" /\ \A c \in Calls : ~About(c, "promote", u)

(* Only another admin takes the role from an admin: describing a depot does not,
   nor does an admin's own request (users.service.ts:70, suppliers.service.ts:36),
   except for the depot that was described when it was still a customer. *)
AdminsFallToAdmins ==
  [][\A u \in Users :
       AdminForGood(u) =>
         \/ AdminForGood(u)'
         \/ \E c \in Calls : Moves(c) /\ About(c, "edit", u) /\ call[c].by # u]_vars
=============================================================================
