---------------------------- MODULE AccessProofs ----------------------------
(***************************************************************************)
(* Proofs about Access, for any people, messages, invites and values of    *)
(* ADMIN_IDS, and any number of updates, ticks and restarts.               *)
(***************************************************************************)
EXTENDS Access, TLAPS

\* Whatever is kept, handed out or marked has been sent.
SentBefore == \A u \in kept \union tasks \union marks : msg[u] \in Message

\* Whoever issued an invite, or may do so now, has been an admin.
IssuedByTrusted ==
  /\ admins \subseteq trusted
  /\ \A c \in Codes : Issued(c) => invites[c].created_by \in trusted

\* A claim that let someone in is the one the row of its invite records.
EnteredIsSpent ==
  \A e \in entered : Issued(e[1]) /\ invites[e[1]].used_by = e[2]

Inv ==
  /\ TypeOK /\ SentBefore /\ IssuedByTrusted /\ EnteredIsSpent
  /\ EveryoneWasVouchedFor /\ SpentOnAGuest /\ OneInvitePerGuest
  /\ MarksAreOfMembers

\* The database, what it is judged by, and who was let in.
dbVars == <<admins, users, invites, marks, msg, entered, trusted>>

-----------------------------------------------------------------------------
LEMMA AccessInit == Init => Inv
<1>. SUFFICES ASSUME Init PROVE Inv
  OBVIOUS
<1>. USE ConstantAssumption DEF Init
<1>1. TypeOK
  BY DEF TypeOK
<1>2. SentBefore /\ EnteredIsSpent /\ MarksAreOfMembers /\ OneInvitePerGuest
  BY DEF SentBefore, EnteredIsSpent, MarksAreOfMembers, OneInvitePerGuest
<1>3. \A c \in Codes : ~Issued(c)
  BY DEF Issued
<1>4. IssuedByTrusted /\ SpentOnAGuest /\ EveryoneWasVouchedFor
  BY <1>3 DEF IssuedByTrusted, SpentOnAGuest, EveryoneWasVouchedFor
<1>. QED
  BY <1>1, <1>2, <1>4 DEF Inv

-----------------------------------------------------------------------------
(* Steps that write nothing *)

\* An update that is dropped, refused or rolled back, a confirmation and a tick
\* of the clock leave the database as it is.
LEMMA NothingWritten ==
  ASSUME Inv, UNCHANGED dbVars, TypeOK',
         kept' \union tasks' \subseteq kept \union tasks
  PROVE  Inv'
<1>. USE DEF dbVars, Inv
<1>1. SentBefore'
  BY DEF SentBefore
<1>2. \A c : Issued(c)' <=> Issued(c)
  BY DEF Issued
<1>3. IssuedByTrusted' /\ EnteredIsSpent' /\ SpentOnAGuest'
  BY <1>2 DEF IssuedByTrusted, EnteredIsSpent, SpentOnAGuest
<1>4. OneInvitePerGuest' /\ MarksAreOfMembers'
  BY DEF OneInvitePerGuest, MarksAreOfMembers
<1>5. \A x : AllowedBy(x)' = AllowedBy(x) /\ InvitedBy(x)' = InvitedBy(x)
  BY DEF AllowedBy, InvitedBy, Issued
<1>6. EveryoneWasVouchedFor'
  BY <1>5 DEF EveryoneWasVouchedFor
<1>. QED
  BY <1>1, <1>3, <1>4, <1>6

\* What DropGroup, DropRedelivery, Deny and Fail have in common.
LEMMA NoTrace ==
  ASSUME Inv, NEW u \in Updates, Ends(u), LeavesNoTrace
  PROVE  Inv'
<1>1. TypeOK'
  BY DEF Inv, TypeOK, Ends, LeavesNoTrace
<1>. QED
  BY <1>1, NothingWritten DEF Ends, LeavesNoTrace, dbVars

-----------------------------------------------------------------------------
(* Telegram and the process *)

LEMMA ArriveStep ==
  ASSUME Inv, NEW u \in Updates, Arrive(u)
  PROVE  Inv'
<1>. USE ConstantAssumption DEF Inv
<1>1. PICK m \in Messages : msg' = [msg EXCEPT ![u] = m]
  BY DEF Arrive
<1>2. m \in Message
  BY <1>1
<1>3. TypeOK'
  BY <1>1, <1>2 DEF TypeOK, Arrive
<1>4. u \notin marks /\ u \notin kept /\ u \notin tasks
  BY DEF Arrive, SentBefore
<1>5. \A v \in Updates \ {u} : msg'[v] = msg[v]
  BY <1>1 DEF TypeOK
<1>6. SentBefore'
  BY <1>1, <1>2, <1>5 DEF SentBefore, TypeOK, Arrive
<1>7. \A v \in marks : msg'[v] = msg[v]
  BY <1>4, <1>5 DEF TypeOK
<1>8. MarksAreOfMembers'
  BY <1>7 DEF MarksAreOfMembers, Arrive
<1>9. \A c : Issued(c)' <=> Issued(c)
  BY DEF Issued, Arrive
<1>10. IssuedByTrusted' /\ EnteredIsSpent' /\ SpentOnAGuest' /\ OneInvitePerGuest'
  BY <1>9 DEF IssuedByTrusted, EnteredIsSpent, SpentOnAGuest,
              OneInvitePerGuest, Arrive
<1>11. \A x : AllowedBy(x)' = AllowedBy(x) /\ InvitedBy(x)' = InvitedBy(x)
  BY <1>7 DEF AllowedBy, InvitedBy, Issued, Arrive
<1>12. EveryoneWasVouchedFor'
  BY <1>11 DEF EveryoneWasVouchedFor, Arrive
<1>. QED
  BY <1>3, <1>6, <1>8, <1>10, <1>12

\* Other ADMIN_IDS only add to whom the properties trust.
LEMMA RestartStep == ASSUME Inv, Restart PROVE Inv'
<1>. USE ConstantAssumption DEF Inv
<1>1. TypeOK'
  BY DEF TypeOK, Restart
<1>2. SentBefore' /\ MarksAreOfMembers' /\ OneInvitePerGuest'
  BY DEF SentBefore, MarksAreOfMembers, OneInvitePerGuest, Restart
<1>3. \A c : Issued(c)' <=> Issued(c)
  BY DEF Issued, Restart
<1>4. IssuedByTrusted' /\ EnteredIsSpent' /\ SpentOnAGuest'
  BY <1>3 DEF IssuedByTrusted, EnteredIsSpent, SpentOnAGuest, Restart
<1>5. \A x : /\ AllowedBy(x) \subseteq AllowedBy(x)'
             /\ InvitedBy(x) \subseteq InvitedBy(x)'
  BY <1>3 DEF AllowedBy, InvitedBy, Restart
<1>6. EveryoneWasVouchedFor'
  BY <1>5 DEF EveryoneWasVouchedFor, Restart
<1>. QED
  BY <1>1, <1>2, <1>4, <1>6

-----------------------------------------------------------------------------
(* Updates that are applied *)

\* Whom an applied update registers, and its mark.
LEMMA Applied ==
  ASSUME Inv, NEW u \in Updates, NEW more \in SUBSET Users,
         Judged(u), Commits(u, more)
  PROVE  /\ msg[u] \in Message /\ msg[u].from \in Users
         /\ users' \subseteq Users /\ marks' \subseteq Updates
         /\ tasks' \subseteq Updates
         /\ SentBefore' /\ MarksAreOfMembers'
<1>. USE DEF Inv, Judged, Ends, Commits
<1>1. msg[u] \in Message
  BY DEF SentBefore
<1>2. msg[u].from \in Users
  BY <1>1 DEF Message
<1>3. SentBefore'
  BY <1>1 DEF SentBefore
<1>4. MarksAreOfMembers'
  BY DEF MarksAreOfMembers
<1>. QED
  BY <1>1, <1>2, <1>3, <1>4 DEF TypeOK

\* A step that adds marks, and neither takes back invites nor trust.
LEMMA VouchersStay ==
  ASSUME Inv, marks \subseteq marks', UNCHANGED <<msg, trusted>>,
         \A c \in Codes : Issued(c) /\ invites[c].used_by # Nobody
                            => invites'[c] = invites[c],
         \A c \in Codes : Issued(c) => Issued(c)'
  PROVE  \A x \in Users : /\ AllowedBy(x) \subseteq AllowedBy(x)'
                          /\ InvitedBy(x) \subseteq InvitedBy(x)'
<1>. TAKE x \in Users
<1>1. AllowedBy(x) \subseteq AllowedBy(x)'
  BY DEF AllowedBy
<1>2. x # Nobody
  BY ConstantAssumption
<1>3. InvitedBy(x) \subseteq InvitedBy(x)'
  BY <1>2 DEF InvitedBy
<1>. QED
  BY <1>1, <1>3

LEMMA RedeemStep ==
  ASSUME Inv, NEW u \in Updates, Redeem(u)
  PROVE  Inv'
<1>. USE ConstantAssumption
<1>. DEFINE c == CodeOf(msg[u])
            x == msg[u].from
<1>1. /\ Judged(u) /\ Stranger(u) /\ Matches(c) /\ Commits(u, {})
      /\ invites' = Claim(c, x) /\ entered' = entered \union {<<c, x>>}
  BY DEF Redeem
<1>2. /\ x \in Users /\ x # Nobody /\ x \notin users
      /\ users' \subseteq Users /\ marks' \subseteq Updates
      /\ tasks' \subseteq Updates /\ SentBefore' /\ MarksAreOfMembers'
  BY <1>1, Applied DEF Stranger, IsAllowed
<1>3. /\ c \in Codes /\ invites[c] \in Invite /\ invites[c].used_by = Nobody
      /\ invites[c].expires_at >= now
  BY <1>1 DEF Matches, Issued, Inv, TypeOK
<1>4. now \in Instants
  BY DEF Inv, TypeOK, Instants
<1>5. /\ invites'[c] = [invites[c] EXCEPT !.used_by = x, !.used_at = now]
      /\ \A d \in Codes \ {c} : invites'[d] = invites[d]
  BY <1>1, <1>3 DEF Claim, Inv, TypeOK
<1>6. /\ invites'[c] \in Invite /\ invites'[c].used_by = x
      /\ invites'[c].used_at = now
      /\ invites'[c].created_by = invites[c].created_by
      /\ invites'[c].expires_at = invites[c].expires_at
  BY <1>2, <1>3, <1>4, <1>5 DEF Invite
<1>7. invites' \in [Codes -> Invite \union {NoInvite}]
  <2>1. invites' \in [Codes -> {invites'[d] : d \in Codes}]
    BY <1>1 DEF Claim, Inv, TypeOK
  <2>2. \A d \in Codes : invites'[d] \in Invite \union {NoInvite}
    BY <1>5, <1>6 DEF Inv, TypeOK
  <2>. QED
    BY <2>1, <2>2
<1>8. TypeOK'
  BY <1>1, <1>2, <1>3, <1>7 DEF Inv, TypeOK, Commits
<1>9. \A d \in Codes : Issued(d)' <=> Issued(d)
  BY <1>1, <1>3, <1>5, <1>6 DEF Issued, Matches
<1>10. IssuedByTrusted'
  BY <1>1, <1>5, <1>6, <1>9 DEF Inv, IssuedByTrusted, Commits
<1>11. EnteredIsSpent'
  <2>. SUFFICES ASSUME NEW e \in entered'
                PROVE  Issued(e[1])' /\ invites'[e[1]].used_by = e[2]
    BY DEF EnteredIsSpent
  <2>1. CASE e = <<c, x>>
    BY <2>1, <1>1, <1>3, <1>6, <1>9 DEF Matches
  <2>2. CASE e \in entered
    <3>1. Issued(e[1]) /\ invites[e[1]].used_by = e[2] /\ e[2] \in Users
      BY <2>2 DEF Inv, EnteredIsSpent, TypeOK
    <3>2. e[1] \in Codes /\ e[1] # c
      BY <3>1, <1>3 DEF Issued
    <3>. QED
      BY <3>1, <3>2, <1>5, <1>9
  <2>. QED
    BY <2>1, <2>2, <1>1
<1>12. SpentOnAGuest'
  <2>. SUFFICES ASSUME NEW d \in Codes, Issued(d)',
                       invites'[d].used_by # Nobody
                PROVE  /\ invites'[d].used_by \in users'
                       /\ <<d, invites'[d].used_by>> \in entered'
    BY DEF SpentOnAGuest
  <2>1. CASE d = c
    BY <2>1, <1>1, <1>6 DEF Commits
  <2>2. CASE d # c
    BY <2>2, <1>1, <1>5, <1>9 DEF Inv, SpentOnAGuest, Commits
  <2>. QED
    BY <2>1, <2>2
<1>13. OneInvitePerGuest'
  <2>1. \A e \in entered : e[2] # x
    BY <1>2 DEF Inv, EnteredIsSpent, SpentOnAGuest, Issued, TypeOK
  <2>. QED
    BY <2>1, <1>1 DEF Inv, OneInvitePerGuest
<1>14. EveryoneWasVouchedFor'
  <2>1. marks \subseteq marks' /\ UNCHANGED <<msg, trusted>>
    BY <1>1 DEF Commits
  <2>2. \A d \in Codes : Issued(d) /\ invites[d].used_by # Nobody
                            => invites'[d] = invites[d]
    BY <1>3, <1>5
  <2>3. \A y \in Users : /\ AllowedBy(y) \subseteq AllowedBy(y)'
                         /\ InvitedBy(y) \subseteq InvitedBy(y)'
    BY <2>1, <2>2, <1>9, VouchersStay
  <2>4. c \in InvitedBy(x)'
    BY <1>1, <1>3, <1>4, <1>6, <1>9, <2>1
       DEF InvitedBy, Inv, IssuedByTrusted, Matches
  <2>. QED
    BY <2>3, <2>4, <1>1, <1>2 DEF Inv, TypeOK, EveryoneWasVouchedFor, Commits
<1>. QED
  BY <1>2, <1>8, <1>10, <1>11, <1>12, <1>13, <1>14 DEF Inv

LEMMA CreateInviteStep ==
  ASSUME Inv, NEW u \in Updates, CreateInvite(u)
  PROVE  Inv'
<1>. USE ConstantAssumption
<1>. DEFINE x == msg[u].from
<1>1. /\ Judged(u) /\ x \in admins /\ Commits(u, {}) /\ entered' = entered
  BY DEF CreateInvite, Handled, Commands, IsAdmin
<1>2. /\ x \in Users /\ x \in trusted
      /\ users' \subseteq Users /\ marks' \subseteq Updates
      /\ tasks' \subseteq Updates /\ SentBefore' /\ MarksAreOfMembers'
  BY <1>1, Applied DEF Inv, IssuedByTrusted
<1>3. PICK c \in Codes : /\ invites[c] = NoInvite
                         /\ invites' = [invites EXCEPT ![c] = NewInvite(x)]
  BY DEF CreateInvite
<1>4. NewInvite(x) \in Invite
  BY <1>2 DEF NewInvite, Invite, Instants, Inv, TypeOK
<1>5. /\ invites'[c] = NewInvite(x)
      /\ \A d \in Codes \ {c} : invites'[d] = invites[d]
  BY <1>3 DEF Inv, TypeOK
<1>6. invites'[c].created_by = x /\ invites'[c].used_by = Nobody
  BY <1>5 DEF NewInvite
<1>7. TypeOK'
  BY <1>1, <1>2, <1>3, <1>4 DEF Inv, TypeOK, Commits
<1>8. \A d \in Codes : Issued(d) => d # c /\ Issued(d)'
  BY <1>3, <1>5 DEF Issued
<1>9. \A d \in Codes : d # c /\ Issued(d)' => Issued(d)
  BY <1>5 DEF Issued
<1>10. IssuedByTrusted'
  BY <1>1, <1>2, <1>5, <1>6, <1>9 DEF Inv, IssuedByTrusted, Commits
<1>11. EnteredIsSpent'
  BY <1>1, <1>5, <1>8 DEF Inv, EnteredIsSpent, Issued
<1>12. SpentOnAGuest'
  BY <1>1, <1>5, <1>6, <1>9 DEF Inv, SpentOnAGuest, Commits
<1>13. OneInvitePerGuest'
  BY <1>1 DEF Inv, OneInvitePerGuest
<1>14. EveryoneWasVouchedFor'
  <2>1. \A y \in Users : /\ AllowedBy(y) \subseteq AllowedBy(y)'
                         /\ InvitedBy(y) \subseteq InvitedBy(y)'
    BY <1>1, <1>5, <1>8, VouchersStay DEF Commits
  <2>. QED
    BY <2>1, <1>1, <1>2 DEF Inv, TypeOK, EveryoneWasVouchedFor, Commits
<1>. QED
  BY <1>2, <1>7, <1>10, <1>11, <1>12, <1>13, <1>14 DEF Inv

\* An update that touches no invite, and registers none but its sender and
\* those whom more names.
LEMMA InvitesUntouched ==
  ASSUME Inv, NEW u \in Updates, NEW more \in SUBSET Users,
         Handled(u), Commits(u, more), UNCHANGED <<invites, entered>>,
         \A x \in more : u \in AllowedBy(x)'
  PROVE  Inv'
<1>. USE ConstantAssumption
<1>1. /\ Judged(u) /\ msg[u].from \in admins \union users
  BY DEF Handled, IsAllowed, IsAdmin
<1>2. /\ users' \subseteq Users /\ marks' \subseteq Updates
      /\ tasks' \subseteq Updates /\ SentBefore' /\ MarksAreOfMembers'
  BY <1>1, Applied
<1>3. TypeOK'
  BY <1>2 DEF Inv, TypeOK, Commits
<1>4. \A c : Issued(c)' <=> Issued(c)
  BY DEF Issued
<1>5. IssuedByTrusted' /\ EnteredIsSpent' /\ OneInvitePerGuest'
  BY <1>4 DEF Inv, IssuedByTrusted, EnteredIsSpent, OneInvitePerGuest, Commits
<1>6. SpentOnAGuest'
  BY <1>4 DEF Inv, SpentOnAGuest, Commits
<1>7. \A y \in Users : /\ AllowedBy(y) \subseteq AllowedBy(y)'
                       /\ InvitedBy(y) \subseteq InvitedBy(y)'
  BY <1>4, VouchersStay DEF Commits
<1>8. EveryoneWasVouchedFor'
  <2>. SUFFICES ASSUME NEW x \in users'
                PROVE  \/ x \in trusted' \/ AllowedBy(x)' # {}
                       \/ InvitedBy(x)' # {}
    BY DEF EveryoneWasVouchedFor
  <2>1. CASE x \in more
    BY <2>1
  <2>2. CASE x \in users
    BY <2>2, <1>7 DEF Inv, TypeOK, EveryoneWasVouchedFor, Commits
  <2>3. CASE x \in admins
    BY <2>3 DEF Inv, IssuedByTrusted, Commits
  <2>. QED
    BY <1>1, <2>1, <2>2, <2>3 DEF Commits
<1>. QED
  BY <1>2, <1>3, <1>5, <1>6, <1>8 DEF Inv

LEMMA AllowUserStep ==
  ASSUME Inv, NEW u \in Updates, AllowUser(u)
  PROVE  Inv'
<1>1. /\ Handled(u) /\ Commits(u, {msg[u].whom})
      /\ UNCHANGED <<invites, entered>>
      /\ msg[u].kind = "allow" /\ msg[u].from \in admins
      /\ msg[u].whom # Nobody
  BY DEF AllowUser, Commands, IsAdmin
<1>2. PICK x \in Users : x = msg[u].whom
  BY <1>1 DEF Handled, Judged, Ends, Inv, SentBefore, Message
<1>3. u \in AllowedBy(x)'
  BY <1>1, <1>2 DEF AllowedBy, Commits, Inv, IssuedByTrusted
<1>4. {x} \in SUBSET Users /\ \A y \in {x} : u \in AllowedBy(y)'
  BY <1>2, <1>3
<1>. QED
  BY <1>1, <1>2, <1>4, InvitesUntouched

-----------------------------------------------------------------------------
LEMMA AccessStep == Inv /\ [Next]_vars => Inv'
<1>. SUFFICES ASSUME Inv, [Next]_vars PROVE Inv'
  OBVIOUS
<1>1. CASE Restart
  BY <1>1, RestartStep
<1>2. CASE Tick
  <2>1. TypeOK'
    BY <1>2, ConstantAssumption DEF Inv, TypeOK, Tick
  <2>. QED
    BY <1>2, <2>1, NothingWritten DEF Tick, dbVars
<1>3. ASSUME NEW u \in Updates, Arrive(u) PROVE Inv'
  BY <1>3, ArriveStep
<1>4. ASSUME NEW u \in Updates, Confirm(u) PROVE Inv'
  <2>1. TypeOK'
    BY <1>4 DEF Inv, TypeOK, Confirm
  <2>. QED
    BY <1>4, <2>1, NothingWritten DEF Confirm, dbVars
<1>5. ASSUME NEW u \in Updates,
             DropGroup(u) \/ DropRedelivery(u) \/ Deny(u) \/ Fail(u)
      PROVE  Inv'
  BY <1>5, NoTrace DEF DropGroup, DropRedelivery, Deny, Fail, Judged
<1>6. ASSUME NEW u \in Updates, Redeem(u) PROVE Inv'
  BY <1>6, RedeemStep
<1>7. ASSUME NEW u \in Updates, CreateInvite(u) PROVE Inv'
  BY <1>7, CreateInviteStep
<1>8. ASSUME NEW u \in Updates, AllowUser(u) PROVE Inv'
  BY <1>8, AllowUserStep
<1>9. ASSUME NEW u \in Updates, Serve(u) PROVE Inv'
  BY <1>9, InvitesUntouched DEF Serve
<1>10. CASE UNCHANGED vars
  <2>1. TypeOK'
    BY <1>10 DEF Inv, TypeOK, vars
  <2>. QED
    BY <1>10, <2>1, NothingWritten DEF vars, dbVars
<1>. QED
  BY <1>1, <1>2, <1>3, <1>4, <1>5, <1>6, <1>7, <1>8, <1>9, <1>10 DEF Next

LEMMA AccessInvariant == Spec => []Inv
BY AccessInit, AccessStep, PTL DEF Spec

\* Every variable of Access stays in its type.
THEOREM TypeCorrect == Spec => []TypeOK
<1>1. Inv => TypeOK
  BY DEF Inv
<1>. QED
  BY <1>1, AccessInvariant, PTL

\* Whoever is in was vouched for by someone who was an admin: by /allow, or by
\* an invite that was claimed in time (the doors of AuthMiddleware).
THEOREM OnlyTheVouchedFor == Spec => []EveryoneWasVouchedFor
<1>1. Inv => EveryoneWasVouchedFor
  BY DEF Inv
<1>. QED
  BY <1>1, AccessInvariant, PTL

\* One invite lets in one person: the one-time claim of redeem_invite.
THEOREM InvitesAreOneTime == Spec => []OneGuestPerInvite
<1>1. Inv => OneGuestPerInvite
  BY DEF Inv, EnteredIsSpent, OneGuestPerInvite
<1>. QED
  BY <1>1, AccessInvariant, PTL

\* Only the commit that lets the guest in spends the invite.
THEOREM NoInviteIsWasted == Spec => []SpentOnAGuest
<1>1. Inv => SpentOnAGuest
  BY DEF Inv
<1>. QED
  BY <1>1, AccessInvariant, PTL

\* Nobody spends a second invite.
THEOREM GuestsSpendOne == Spec => []OneInvitePerGuest
<1>1. Inv => OneInvitePerGuest
  BY DEF Inv
<1>. QED
  BY <1>1, AccessInvariant, PTL

\* Updates that were refused leave no mark (slot.denied).
THEOREM RefusedLeaveNoMark == Spec => []MarksAreOfMembers
<1>1. Inv => MarksAreOfMembers
  BY DEF Inv
<1>. QED
  BY <1>1, AccessInvariant, PTL
=============================================================================
