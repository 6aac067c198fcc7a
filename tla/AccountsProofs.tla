--------------------------- MODULE AccountsProofs ---------------------------
(* Proofs about Accounts: the types, the roster of admins and the sessions of
   deactivated accounts, for any number of users and of overlapping requests. *)
EXTENDS Accounts, TLAPS

USE AccountsAssumption DEF At, Goes, Answers, tables

LEMMA InitTypes == Init => TypeOK
BY DEF Init, TypeOK, Roles, InFlight

LEMMA StepKeepsTypes == TypeOK /\ [Next]_vars => TypeOK'
<1> SUFFICES ASSUME TypeOK, [Next]_vars PROVE TypeOK'
  OBVIOUS
<1>1. CASE UNCHANGED vars
  BY <1>1 DEF vars, TypeOK
<1>2. ASSUME NEW c \in Calls, NEW u \in Users, NEW r \in Roles, Register(c, u, r)
      PROVE  TypeOK'
  BY <1>2 DEF Register, TypeOK, InFlight
<1>3. ASSUME NEW c \in Calls, NEW u \in Users,
             Login(c, u) \/ LogoutBegins(c, u) \/ PromoteRead(c, u)
      PROVE  TypeOK'
  BY <1>3 DEF Login, LogoutBegins, PromoteRead, TypeOK, InFlight
<1>4. ASSUME NEW c \in Calls, NEW u \in Users, NEW t \in Tokens, Refresh(c, u, t)
      PROVE  TypeOK'
  BY <1>4 DEF Refresh, TypeOK, InFlight
<1>5. ASSUME NEW c \in Calls, NEW u \in Users, NEW by \in Users, NEW edit \in Edits,
             EditRead(c, by, u, edit)
      PROVE  TypeOK'
  BY <1>5 DEF EditRead, TypeOK, InFlight
<1>6. ASSUME NEW c \in Calls, StartSession(c) PROVE TypeOK'
  <2>1. call[c].user \in Users
    BY <1>6 DEF StartSession, TypeOK, InFlight
  <2>2. QED
    BY <1>6, <2>1 DEF StartSession, TypeOK, InFlight
<1>7. ASSUME NEW c \in Calls, Logout(c) \/ Promote(c) PROVE TypeOK'
  <2>1. call[c].user \in Users
    BY <1>7 DEF Logout, Promote, TypeOK, InFlight
  <2>2. QED
    BY <1>7, <2>1 DEF Logout, Promote, TypeOK, InFlight, Roles
<1>8. ASSUME NEW c \in Calls, EditWrite(c) PROVE TypeOK'
  <2>1. call[c].user \in Users /\ call[c].edit \in Edits
    BY <1>8 DEF EditWrite, TypeOK, InFlight
  <2>2. PICK u \in Users, edit \in Edits : u = call[c].user /\ edit = call[c].edit
    BY <2>1
  <2>3. /\ RoleAfter(u, edit) \in Roles \cup {"NONE"}
        /\ ActiveAfter(u, edit) \in BOOLEAN
        /\ SessionAfter(u, edit) \in Tokens \cup {NoToken}
    BY DEF RoleAfter, ActiveAfter, SessionAfter, Edits, TypeOK
  <2>4. /\ role' = [role EXCEPT ![u] = RoleAfter(u, edit)]
        /\ active' = [active EXCEPT ![u] = ActiveAfter(u, edit)]
        /\ session' = [session EXCEPT ![u] = SessionAfter(u, edit)]
        /\ call' = [call EXCEPT ![c] = [pc |-> "idle"]]
        /\ signed' = signed
    BY <1>8, <2>2 DEF EditWrite
  <2>5. QED
    BY <2>3, <2>4 DEF TypeOK, InFlight
<1>9. ASSUME NEW c \in Calls, Crash(c) PROVE TypeOK'
  BY <1>9 DEF Crash, TypeOK, InFlight
<1>10. QED
  BY <1>1, <1>2, <1>3, <1>4, <1>5, <1>6, <1>7, <1>8, <1>9 DEF Next

(* The users table and the requests keep their types (schema.prisma, model User). *)
THEOREM TypeCorrect == Spec => []TypeOK
<1>1. QED
  BY InitTypes, StepKeepsTypes, PTL DEF Spec

-----------------------------------------------------------------------------
(* No edit on its way demotes or deactivates its own author: the request remembers
   what it was asked for, so nobody has to be locked out for this to stay true. *)
EditsSpare ==
  \A c \in Calls : At(c, "edit") => SparesSelf(call[c].by, call[c].user, call[c].edit)

\* a request that is given something else to do is given an edit that spares its author
LEMMA CallsKeepSparing ==
  ASSUME EditsSpare, TypeOK, NEW c \in Calls, NEW local, Goes(c, local),
         local.pc = "edit" => SparesSelf(local.by, local.user, local.edit)
  PROVE  EditsSpare'
<1> SUFFICES ASSUME NEW d \in Calls, call'[d].pc = "edit"
             PROVE  SparesSelf(call'[d].by, call'[d].user, call'[d].edit)
  BY DEF EditsSpare, SparesSelf
<1>1. CASE d = c
  BY <1>1 DEF TypeOK
<1>2. CASE d # c
  BY <1>2 DEF EditsSpare, TypeOK
<1>3. QED
  BY <1>1, <1>2

\* only EditRead begins an edit, and it looks at author and account first
LEMMA StepKeepsSparing == TypeOK /\ EditsSpare /\ [Next]_vars => EditsSpare'
<1> SUFFICES ASSUME TypeOK, EditsSpare, [Next]_vars PROVE EditsSpare'
  OBVIOUS
<1>1. CASE UNCHANGED vars
  BY <1>1 DEF vars, EditsSpare, SparesSelf
<1>2. ASSUME NEW c \in Calls, NEW u \in Users,
             \/ \E r \in Roles : Register(c, u, r)
             \/ Login(c, u) \/ \E t \in Tokens : Refresh(c, u, t)
      PROVE  EditsSpare'
  <2>1. PICK local : local = [pc |-> "start", user |-> u]
    OBVIOUS
  <2>2. Goes(c, local)
    BY <1>2, <2>1 DEF Register, Login, Refresh
  <2>3. QED
    BY <2>1, <2>2, CallsKeepSparing
<1>3. ASSUME NEW c \in Calls, NEW u \in Users, LogoutBegins(c, u) PROVE EditsSpare'
  <2>1. PICK local : local = [pc |-> "logout", user |-> u]
    OBVIOUS
  <2>2. Goes(c, local)
    BY <1>3, <2>1 DEF LogoutBegins
  <2>3. QED
    BY <2>1, <2>2, CallsKeepSparing
<1>4. ASSUME NEW c \in Calls, NEW u \in Users, PromoteRead(c, u) PROVE EditsSpare'
  <2>1. PICK local : local = [pc |-> "promote", user |-> u]
    OBVIOUS
  <2>2. Goes(c, local)
    BY <1>4, <2>1 DEF PromoteRead
  <2>3. QED
    BY <2>1, <2>2, CallsKeepSparing
<1>5. ASSUME NEW c \in Calls, NEW u \in Users, NEW by \in Users, NEW edit \in Edits,
             EditRead(c, by, u, edit)
      PROVE  EditsSpare'
  <2>1. PICK local : local = [pc |-> "edit", by |-> by, user |-> u, edit |-> edit]
    OBVIOUS
  <2>2. Goes(c, local) /\ SparesSelf(by, u, edit)
    BY <1>5, <2>1 DEF EditRead
  <2>3. QED
    BY <2>1, <2>2, CallsKeepSparing
<1>6. ASSUME NEW c \in Calls,
             StartSession(c) \/ Logout(c) \/ EditWrite(c) \/ Promote(c) \/ Crash(c)
      PROVE  EditsSpare'
  <2>1. PICK local : local = [pc |-> "idle"]
    OBVIOUS
  <2>2. Goes(c, local)
    BY <1>6, <2>1 DEF StartSession, Logout, EditWrite, Promote, Crash
  <2>3. QED
    BY <2>1, <2>2, CallsKeepSparing
<1>7. QED
  BY <1>1, <1>2, <1>3, <1>4, <1>5, <1>6 DEF Next

LEMMA SparingAlways == Spec => [](TypeOK /\ EditsSpare)
<1>1. Init => TypeOK /\ EditsSpare
  <2>1. Init => TypeOK
    BY InitTypes
  <2>2. Init => EditsSpare
    BY DEF Init, EditsSpare
  <2>3. QED
    BY <2>1, <2>2
<1>2. TypeOK /\ EditsSpare /\ [Next]_vars => (TypeOK /\ EditsSpare)'
  BY StepKeepsTypes, StepKeepsSparing
<1>3. QED
  BY <1>1, <1>2, PTL DEF Spec

-----------------------------------------------------------------------------
(* What each kind of step can do to an account. *)

\* an edit writes its account's row, and the others keep theirs
LEMMA EditTouchesItsUser ==
  ASSUME TypeOK, NEW c \in Calls, EditWrite(c), NEW u \in Users
  PROVE  /\ call'[c] = [pc |-> "idle"] /\ call[c].pc = "edit" /\ Moves(c)
         /\ \A d \in Calls \ {c} : call'[d] = call[d]
         /\ u # call[c].user =>
              role'[u] = role[u] /\ active'[u] = active[u] /\ session'[u] = session[u]
         /\ u = call[c].user =>
              /\ role'[u] = RoleAfter(u, call[c].edit)
              /\ active'[u] = ActiveAfter(u, call[c].edit)
              /\ session'[u] = SessionAfter(u, call[c].edit)
         /\ call[c].edit \in Edits
<1>1. call[c].pc = "edit" /\ call' = [call EXCEPT ![c] = [pc |-> "idle"]]
  BY DEF EditWrite
<1>2. /\ call[c].user \in Users /\ call[c].edit \in Edits
      /\ call'[c] = [pc |-> "idle"] /\ \A d \in Calls \ {c} : call'[d] = call[d]
  BY <1>1 DEF TypeOK, InFlight
<1>3. PICK v \in Users, edit \in Edits : v = call[c].user /\ edit = call[c].edit
  BY <1>2
<1>4. /\ role' = [role EXCEPT ![v] = RoleAfter(v, edit)]
      /\ active' = [active EXCEPT ![v] = ActiveAfter(v, edit)]
      /\ session' = [session EXCEPT ![v] = SessionAfter(v, edit)]
  BY <1>3 DEF EditWrite
<1>5. Moves(c)
  BY <1>1, <1>2 DEF Moves
<1>6. QED
  BY <1>1, <1>2, <1>3, <1>4, <1>5 DEF TypeOK

\* an author who is still an active admin is one after the edit
LEMMA EditLeavesItsAuthor ==
  ASSUME TypeOK, EditsSpare, NEW c \in Calls, EditWrite(c),
         NEW u \in Users, u = call[c].by
  PROVE  /\ role[u] = "ADMIN" => role'[u] = "ADMIN"
         /\ role[u] = "ADMIN" /\ active[u] => active'[u]
<1>1. CASE u # call[c].user
  BY <1>1, EditTouchesItsUser
<1>2. CASE u = call[c].user
  <2>1. PICK edit \in Edits : edit = call[c].edit
    BY EditTouchesItsUser
  <2>2. SparesSelf(u, u, edit)
    BY <1>2, <2>1, EditTouchesItsUser DEF EditsSpare
  <2>3. edit.active \in {"on", "same"} /\ edit.role \in {"ADMIN", "same"}
    BY <2>2 DEF SparesSelf, Edits
  <2>4. role'[u] = RoleAfter(u, edit) /\ active'[u] = ActiveAfter(u, edit)
    BY <1>2, <2>1, EditTouchesItsUser
  <2>5. role[u] = "ADMIN" => role'[u] = "ADMIN"
    BY <2>3, <2>4 DEF RoleAfter
  <2>6. active[u] => active'[u]
    <3>1. CASE edit.active = "on"
      BY <3>1, <2>4 DEF ActiveAfter
    <3>2. CASE edit.active = "same"
      BY <3>2, <2>4 DEF ActiveAfter
    <3>3. QED
      BY <2>3, <3>1, <3>2
  <2>7. QED
    BY <2>5, <2>6
<1>3. QED
  BY <1>1, <1>2

\* a promotion writes the role of its account only
LEMMA PromotionTouchesItsUser ==
  ASSUME TypeOK, NEW c \in Calls, Promote(c)
  PROVE  /\ call'[c] = [pc |-> "idle"] /\ call[c].pc = "promote" /\ Moves(c)
         /\ \A d \in Calls \ {c} : call'[d] = call[d]
         /\ call[c].user \in Users
         /\ \A u \in Users : u # call[c].user => role'[u] = role[u]
         /\ active' = active /\ session' = session
<1>1. /\ call[c].pc = "promote" /\ call' = [call EXCEPT ![c] = [pc |-> "idle"]]
      /\ role' = [role EXCEPT ![call[c].user] = "SUPPLIER"]
      /\ active' = active /\ session' = session
  BY DEF Promote
<1>2. /\ call'[c] = [pc |-> "idle"] /\ \A d \in Calls \ {c} : call'[d] = call[d]
      /\ call[c].user \in Users
  BY <1>1 DEF TypeOK, InFlight
<1>3. QED
  BY <1>1, <1>2 DEF TypeOK, Moves

\* nobody else takes a role from an account, or deactivates one
LEMMA OthersLeaveTheRoster ==
  ASSUME TypeOK, [Next]_vars, \A c \in Calls : ~EditWrite(c) /\ ~Promote(c), NEW u \in Users
  PROVE  \/ role'[u] = role[u] /\ active'[u] = active[u]
         \/ role[u] = "NONE" /\ active'[u]
<1>1. CASE UNCHANGED <<role, active>>
  BY <1>1
<1>2. ASSUME NEW c \in Calls, NEW v \in Users, NEW r \in Roles, Register(c, v, r)
      PROVE  \/ role'[u] = role[u] /\ active'[u] = active[u]
             \/ role[u] = "NONE" /\ active'[u]
  BY <1>2 DEF Register, TypeOK
<1>3. QED
  BY <1>1, <1>2 DEF Next, vars, StartSession, Logout, Crash, Login, LogoutBegins,
                    PromoteRead, Refresh, EditRead

-----------------------------------------------------------------------------
(* The last admin falls only to a request that lost its ground in flight
   (users.service.ts:49), however many accounts, admins and requests there are. *)
THEOREM AnAdminStands == Spec => LastAdminStands
<1> DEFINE Excused ==
      \E c \in Calls :
        /\ Moves(c)
        /\ \/ At(c, "edit") /\ call[c].by \notin Admins
           \/ At(c, "promote") /\ call[c].user \in Admins
<1>1. TypeOK /\ EditsSpare /\ [Next]_vars => [Admins # {} /\ Admins' = {} => Excused]_vars
  <2> SUFFICES ASSUME TypeOK, EditsSpare, [Next]_vars, Admins # {}, Admins' = {}
               PROVE  Excused
    OBVIOUS
  <2>1. PICK a \in Users : role[a] = "ADMIN" /\ active[a]
    BY DEF Admins
  <2>2. \A u \in Users : ~(role'[u] = "ADMIN" /\ active'[u])
    BY DEF Admins
  <2>3. ASSUME NEW c \in Calls, EditWrite(c) PROVE Excused
    <3>1. Moves(c) /\ At(c, "edit")
      BY <2>1, <2>3, EditTouchesItsUser
    <3>2. call[c].by \notin Admins
      <4> SUFFICES ASSUME NEW u \in Users, u = call[c].by, role[u] = "ADMIN", active[u]
                   PROVE  FALSE
        BY DEF Admins
      <4>1. role'[u] = "ADMIN" /\ active'[u]
        BY <2>3, EditLeavesItsAuthor
      <4>2. QED
        BY <4>1, <2>2
    <3>3. QED
      BY <3>1, <3>2
  <2>4. ASSUME NEW c \in Calls, Promote(c) PROVE Excused
    <3>1. a = call[c].user
      BY <2>1, <2>2, <2>4, PromotionTouchesItsUser
    <3>2. QED
      BY <2>1, <2>4, <3>1, PromotionTouchesItsUser DEF Admins
  <2>5. ~(\A c \in Calls : ~EditWrite(c) /\ ~Promote(c))
    BY <2>1, <2>2, OthersLeaveTheRoster
  <2>6. QED
    BY <2>3, <2>4, <2>5
<1>2. QED
  BY <1>1, SparingAlways, PTL DEF Spec, LastAdminStands

(* Only another admin's edit takes the role from an admin nobody is about to make a
   supplier of (users.service.ts:70, suppliers.service.ts:36). *)
THEOREM OnlyAdminsUnmakeAdmins == Spec => AdminsFallToAdmins
<1> DEFINE Excused(u) ==
      \E c \in Calls : Moves(c) /\ About(c, "edit", u) /\ call[c].by # u
<1>1. TypeOK /\ EditsSpare /\ [Next]_vars =>
        [\A u \in Users :
           AdminForGood(u) =>
             \/ AdminForGood(u)'
             \/ \E c \in Calls : Moves(c) /\ About(c, "edit", u) /\ call[c].by # u]_vars
  <2> SUFFICES ASSUME TypeOK, EditsSpare, [Next]_vars, NEW u \in Users,
                      AdminForGood(u), ~Excused(u)
               PROVE  AdminForGood(u)'
    OBVIOUS
  <2>1. role[u] = "ADMIN" /\ \A c \in Calls : ~(call[c].pc = "promote" /\ call[c].user = u)
    BY DEF AdminForGood, About
  <2>2. role'[u] = "ADMIN"
    <3>1. ASSUME NEW c \in Calls, EditWrite(c) PROVE role'[u] = "ADMIN"
      <4>1. CASE call[c].user # u
        BY <4>1, <3>1, <2>1, EditTouchesItsUser
      <4>2. CASE call[c].user = u
        <5>1. call[c].by = u
          BY <4>2, <3>1, EditTouchesItsUser DEF About
        <5>2. QED
          BY <5>1, <3>1, <2>1, EditLeavesItsAuthor
      <4>3. QED
        BY <4>1, <4>2
    <3>2. ASSUME NEW c \in Calls, Promote(c) PROVE role'[u] = "ADMIN"
      BY <3>2, <2>1, PromotionTouchesItsUser
    <3>3. CASE \A c \in Calls : ~EditWrite(c) /\ ~Promote(c)
      BY <3>3, <2>1, OthersLeaveTheRoster
    <3>4. QED
      BY <3>1, <3>2, <3>3
  <2>3. ASSUME NEW c \in Calls, call'[c].pc = "promote", call'[c].user = u PROVE FALSE
    <3>1. call'[c] # call[c]
      BY <2>1, <2>3
    <3>2. PICK d \in Calls, v \in Users :
            PromoteRead(d, v) \/ call' = [call EXCEPT ![d] = [pc |-> "idle"]]
            \/ call' = [call EXCEPT ![d] = [pc |-> "start", user |-> v]]
            \/ call' = [call EXCEPT ![d] = [pc |-> "logout", user |-> v]]
            \/ \E by \in Users, edit \in Edits :
                 call' = [call EXCEPT ![d] =
                            [pc |-> "edit", by |-> by, user |-> v, edit |-> edit]]
      BY <3>1 DEF Next, vars, StartSession, Logout, EditWrite, Promote, Crash, Register,
                  Login, LogoutBegins, Refresh, EditRead
    <3>3. d = c
      BY <3>1, <3>2 DEF PromoteRead, TypeOK
    <3>4. PromoteRead(d, v)
      BY <2>3, <3>2, <3>3 DEF TypeOK
    <3>5. v = u /\ role[v] = "CUSTOMER"
      BY <2>3, <3>3, <3>4 DEF PromoteRead, IsPromoted, TypeOK
    <3>6. QED
      BY <3>5, <2>1
  <2>4. QED
    BY <2>2, <2>3 DEF AdminForGood, About
<1>2. QED
  BY <1>1, SparingAlways, PTL DEF Spec, AdminsFallToAdmins

(* Deactivation ends the session, and an account that is shut out stays shut out
   until it is activated (users.service.ts:82). *)
THEOREM SessionsEnd == Spec => DeactivationEndsSession
<1> DEFINE Ends(u) == active[u] /\ ~active'[u] => session'[u] = NoToken
           Stays(u) == ShutOut(u) => ShutOut(u)' \/ active'[u]
<1>1. TypeOK /\ [Next]_vars =>
        [\A u \in Users :
           /\ active[u] /\ ~active'[u] => session'[u] = NoToken
           /\ ShutOut(u) => ShutOut(u)' \/ active'[u]]_vars
  <2> SUFFICES ASSUME TypeOK, [Next]_vars, NEW u \in Users PROVE Ends(u) /\ Stays(u)
    OBVIOUS
  <2>1. Ends(u)
    <3> SUFFICES ASSUME active[u], ~active'[u] PROVE session'[u] = NoToken
      OBVIOUS
    <3>1. PICK c \in Calls : EditWrite(c) \/ Promote(c)
      BY OthersLeaveTheRoster
    <3>2. EditWrite(c) /\ call[c].user = u
      BY <3>1, EditTouchesItsUser, PromotionTouchesItsUser
    <3>3. PICK edit \in Edits :
            active'[u] = ActiveAfter(u, edit) /\ session'[u] = SessionAfter(u, edit)
      BY <3>2, EditTouchesItsUser
    <3>4. edit.active = "off"
      BY <3>3 DEF ActiveAfter, Edits
    <3>5. QED
      BY <3>3, <3>4 DEF SessionAfter
  <2>2. Stays(u)
    <3> SUFFICES ASSUME ShutOut(u), ~active'[u] PROVE ShutOut(u)'
      OBVIOUS
    <3>1. /\ ~active[u] /\ session[u] = NoToken
          /\ \A c \in Calls : ~(call[c].pc = "start" /\ call[c].user = u)
      BY DEF ShutOut, About
    <3>2. session'[u] = NoToken
      <4>1. ASSUME NEW c \in Calls, EditWrite(c) PROVE session'[u] = NoToken
        BY <4>1, <3>1, EditTouchesItsUser DEF SessionAfter
      <4>2. ASSUME NEW c \in Calls, StartSession(c) PROVE session'[u] = NoToken
        BY <4>2, <3>1 DEF StartSession, TypeOK
      <4>3. ASSUME NEW c \in Calls, Logout(c) PROVE session'[u] = NoToken
        BY <4>3, <3>1 DEF Logout, TypeOK
      <4>4. CASE session' = session
        BY <4>4, <3>1
      <4>5. QED
        BY <4>1, <4>2, <4>3, <4>4 DEF Next, vars, Promote, Crash, Register, Login,
                                     LogoutBegins, PromoteRead, Refresh, EditRead
    <3>3. ASSUME NEW c \in Calls, call'[c].pc = "start", call'[c].user = u PROVE FALSE
      <4>1. call'[c] # call[c]
        BY <3>1, <3>3
      <4>2. PICK d \in Calls, v \in Users :
              (\E r \in Roles : Register(d, v, r)) \/ Login(d, v)
              \/ (\E t \in Tokens : Refresh(d, v, t))
              \/ call' = [call EXCEPT ![d] = [pc |-> "idle"]]
              \/ call' = [call EXCEPT ![d] = [pc |-> "promote", user |-> v]]
              \/ call' = [call EXCEPT ![d] = [pc |-> "logout", user |-> v]]
              \/ \E by \in Users, edit \in Edits :
                   call' = [call EXCEPT ![d] =
                              [pc |-> "edit", by |-> by, user |-> v, edit |-> edit]]
        BY <4>1 DEF Next, vars, StartSession, Logout, EditWrite, Promote, Crash,
                    LogoutBegins, PromoteRead, EditRead
      <4>3. d = c
        BY <4>1, <4>2 DEF Register, Login, Refresh, TypeOK
      <4>4. (\E r \in Roles : Register(d, v, r)) \/ Login(d, v)
            \/ \E t \in Tokens : Refresh(d, v, t)
        BY <3>3, <4>2, <4>3 DEF TypeOK
      <4>5. call' = [call EXCEPT ![c] = [pc |-> "start", user |-> v]]
        BY <4>3, <4>4 DEF Register, Login, Refresh
      <4>6. v = u
        BY <3>3, <4>5 DEF TypeOK
      <4>7. QED
        BY <3>1, <4>4, <4>6 DEF Register, Login, Refresh, SignedIn, TypeOK
    <3>4. QED
      BY <3>2, <3>3 DEF ShutOut, About
  <2>3. QED
    BY <2>1, <2>2
<1>2. QED
  BY <1>1, TypeCorrect, PTL DEF Spec, DeactivationEndsSession
=============================================================================
