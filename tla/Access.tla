------------------------------- MODULE Access -------------------------------
(***************************************************************************)
(* Who is let in: AuthMiddleware and AccessService, the two admin commands *)
(* that admit people, and what PrivateChatOnlyMiddleware and               *)
(* IdempotencyMiddleware keep from them, with updates that are handled in  *)
(* any order, handlers that fail, crashes after which Telegram delivers    *)
(* again what was not confirmed, and restarts with other ADMIN_IDS.        *)
(*                                                                         *)
(* The scope of an update holds the write lock and is one transaction:     *)
(* it is one step, its commit or its rollback.  Module Delivery has the    *)
(* steps inside it, and the replies.                                       *)
(***************************************************************************)
EXTENDS Integers, FiniteSets

CONSTANTS
  Updates,     \* the updates Telegram will ever deliver
  Users,       \* the people who find the bot
  Nobody,      \* NULL in invites.used_by
  Codes,       \* the codes secrets.token_urlsafe will draw
  NoCode,      \* a code that was never drawn, or none at all
  NoInvite,    \* a code that was not drawn yet
  Messages,    \* what people may send
  Unsent,      \* an update that does not exist yet
  AdminSets,   \* the values ADMIN_IDS may have
  INVITE_TTL,  \* in ticks of the clock
  MaxNow, MaxCrashes  \* bounds on the clock and on restarts

Instants == 0..(MaxNow + INVITE_TTL)

\* What the code tells apart in an update: its sender, its chat, and whether it
\* is a /start, /invite or /allow; "other" is everything else a handler takes.
Message == [from : Users, private : BOOLEAN,
            kind : {"start", "invite", "allow", "other"},
            code : Codes \union {NoCode},      \* of /start <code>
            whom : Users \union {Nobody}]      \* of /allow <id>

Invite == [created_by : Users, expires_at : Instants,
           used_by : Users \union {Nobody}, used_at : Instants]

ASSUME ConstantAssumption ==
  /\ Nobody \notin Users /\ NoCode \notin Codes
  /\ NoInvite \notin Invite /\ Unsent \notin Message
  /\ Messages \subseteq Message
  /\ AdminSets \subseteq SUBSET Users /\ AdminSets # {}
  /\ INVITE_TTL \in Nat /\ MaxNow \in Nat /\ MaxCrashes \in Nat

VARIABLES
  admins,   \* Settings.admin_ids of this process
  users,    \* the ids in the users table
  invites,  \* invites[c]: the row with code c
  marks,    \* processed_updates
  now,      \* utcnow
  msg,      \* msg[u]: what update u says
  kept,     \* updates Telegram delivers again after a restart
  tasks,    \* updates this process has been given and has not handled
  entered,  \* <<c, x>>: a claim of the invite c let x in
  trusted,  \* everyone who has ever been in ADMIN_IDS
  crashes

vars == <<admins, users, invites, marks, now, msg, kept, tasks, entered,
          trusted, crashes>>

TypeOK ==
  /\ admins \in AdminSets
  /\ users \subseteq Users
  /\ invites \in [Codes -> Invite \union {NoInvite}]
  /\ marks \subseteq Updates
  /\ now \in 0..MaxNow
  /\ msg \in [Updates -> Message \union {Unsent}]
  /\ kept \subseteq Updates /\ tasks \subseteq Updates
  /\ entered \subseteq Codes \X Users
  /\ trusted \subseteq Users
  /\ crashes \in 0..MaxCrashes

Init ==
  /\ admins \in AdminSets
  /\ users = {}
  /\ invites = [c \in Codes |-> NoInvite]
  /\ marks = {}
  /\ now = 0
  /\ msg = [u \in Updates |-> Unsent]
  /\ kept = {} /\ tasks = {}
  /\ entered = {}
  /\ trusted = admins
  /\ crashes = 0

Issued(c) == c \in Codes /\ invites[c] # NoInvite

-----------------------------------------------------------------------------
(* Telegram, the clock and the process *)

\* Someone sends a message; the code of a link is known once it was issued.
\* A poll hands it to the process, which starts a task for it.
Arrive(u) ==
  /\ msg[u] = Unsent
  /\ \E m \in Messages :
       /\ Issued(m.code) \/ m.code = NoCode
       /\ msg' = [msg EXCEPT ![u] = m]
  /\ kept' = kept \union {u}
  /\ tasks' = tasks \union {u}
  /\ UNCHANGED <<admins, users, invites, marks, now, entered, trusted,
                 crashes>>

\* The next getUpdates confirms u, whether its task has ended or not.
Confirm(u) ==
  /\ u \in kept
  /\ kept' = kept \ {u}
  /\ UNCHANGED <<admins, users, invites, marks, now, msg, tasks, entered,
                 trusted, crashes>>

\* The process dies, what it had not committed with it, and comes up with the
\* ADMIN_IDS of the day; Telegram delivers again what was not confirmed.
Restart ==
  /\ crashes < MaxCrashes
  /\ crashes' = crashes + 1
  /\ admins' \in AdminSets
  /\ trusted' = trusted \union admins'
  /\ tasks' = kept
  /\ UNCHANGED <<users, invites, marks, now, msg, kept, entered>>

Tick ==
  /\ now < MaxNow
  /\ now' = now + 1
  /\ UNCHANGED <<admins, users, invites, marks, msg, kept, tasks, entered,
                 trusted, crashes>>

-----------------------------------------------------------------------------
(* The gates of an update *)

Ends(u) == u \in tasks /\ tasks' = tasks \ {u}

\* The update leaves nothing behind.
LeavesNoTrace ==
  UNCHANGED <<admins, users, invites, marks, now, msg, kept, entered, trusted,
              crashes>>

\* PrivateChatOnlyMiddleware: other chats get no scope at all.
DropGroup(u) ==
  /\ Ends(u)
  /\ ~msg[u].private
  /\ LeavesNoTrace

\* IdempotencyMiddleware: the update was applied before the restart.
DropRedelivery(u) ==
  /\ Ends(u)
  /\ msg[u].private /\ u \in marks
  /\ LeavesNoTrace

\* AuthMiddleware has the update to itself.
Judged(u) == Ends(u) /\ msg[u].private /\ u \notin marks

\* AccessService.is_admin
IsAdmin(x) == x \in admins

\* (Mutant: the row is not looked up.)
AllowsAdmins(x) == IsAdmin(x)

\* AccessService.is_allowed
IsAllowed(x) == IsAdmin(x) \/ x \in users

\* (Mutant: used_by is not looked at.)
MatchesUsed(c) == Issued(c) /\ invites[c].expires_at >= now

\* The WHERE clause of redeem_invite.
Matches(c) ==
  /\ Issued(c)
  /\ invites[c].used_by = Nobody
  /\ invites[c].expires_at >= now

\* The code that _invite_code_from_start finds.
CodeOf(m) == IF m.kind = "start" THEN m.code ELSE NoCode

Stranger(u) == ~IsAllowed(msg[u].from)

\* (Mutant: the update is marked as every other.)
DenyMarks(u) ==
  /\ Judged(u) /\ Stranger(u) /\ ~Matches(CodeOf(msg[u]))
  /\ marks' = marks \union {u}
  /\ UNCHANGED <<admins, users, invites, now, msg, kept, entered, trusted,
                 crashes>>

\* AuthMiddleware refuses; slot.denied keeps the mark from being written.
Deny(u) ==
  /\ Judged(u) /\ Stranger(u) /\ ~Matches(CodeOf(msg[u]))
  /\ LeavesNoTrace

\* What the commit of an update of x brings in any case, by ensure_registered
\* and IdempotencyMiddleware; the users in more are registered as well.
Commits(u, more) ==
  /\ users' = users \union {msg[u].from} \union more
  /\ marks' = marks \union {u}
  /\ UNCHANGED <<admins, now, msg, kept, trusted, crashes>>

\* The UPDATE of redeem_invite.
Claim(c, x) == [invites EXCEPT ![c].used_by = x, ![c].used_at = now]

\* redeem_invite, then the handler of /start.
Redeem(u) ==
  LET c == CodeOf(msg[u])  x == msg[u].from IN
  /\ Judged(u) /\ Stranger(u) /\ Matches(c)
  /\ invites' = Claim(c, x)
  /\ entered' = entered \union {<<c, x>>}
  /\ Commits(u, {})

-----------------------------------------------------------------------------
(* The handlers *)

Handled(u) == Judged(u) /\ IsAllowed(msg[u].from)

\* (Mutant: whoever is allowed may issue invites and admit others.)
CommandsFromAnyone(u, kind) == msg[u].kind = kind

\* An admin's command; from others the handlers of both commands return.
Commands(u, kind) == msg[u].kind = kind /\ IsAdmin(msg[u].from)

\* create_invite
NewInvite(x) == [created_by |-> x, expires_at |-> now + INVITE_TTL,
                 used_by |-> Nobody, used_at |-> 0]

\* cmd_invite
CreateInvite(u) ==
  /\ Handled(u) /\ Commands(u, "invite")
  /\ \E c \in Codes :
       /\ invites[c] = NoInvite
       /\ invites' = [invites EXCEPT ![c] = NewInvite(msg[u].from)]
  /\ Commits(u, {})
  /\ UNCHANGED entered

\* (Mutant: whatever follows the command is taken for an id.)
AllowAnything(u) ==
  /\ Handled(u) /\ Commands(u, "allow")
  /\ Commits(u, {msg[u].whom})
  /\ UNCHANGED <<invites, entered>>

\* cmd_allow, allow_user
AllowUser(u) ==
  /\ Handled(u) /\ Commands(u, "allow") /\ msg[u].whom # Nobody
  /\ Commits(u, {msg[u].whom})
  /\ UNCHANGED <<invites, entered>>

\* Every other handler, /allow with no decimal argument, a command that is not
\* the sender's to give, and /start of someone who is in already.
Serve(u) ==
  /\ Handled(u)
  /\ ~Commands(u, "invite")
  /\ Commands(u, "allow") => msg[u].whom = Nobody
  /\ Commits(u, {})
  /\ UNCHANGED <<invites, entered>>

\* (Mutant: the claim is committed before the handler runs.)
FailKeepsClaim(u) ==
  LET c == CodeOf(msg[u]) IN
  /\ Judged(u)
  /\ IF Stranger(u) /\ Matches(c)
     THEN invites' = Claim(c, msg[u].from)
     ELSE UNCHANGED invites
  /\ UNCHANGED <<admins, users, marks, now, msg, kept, entered, trusted,
                 crashes>>

\* The handler raises or the commit fails: the scope is rolled back, the claim
\* of an invite included.
Fail(u) ==
  /\ Judged(u)
  /\ LeavesNoTrace

Next ==
  \/ Restart \/ Tick
  \/ \E u \in Updates :
       \/ Arrive(u) \/ Confirm(u)
       \/ DropGroup(u) \/ DropRedelivery(u) \/ Deny(u) \/ Redeem(u)
       \/ CreateInvite(u) \/ AllowUser(u) \/ Serve(u) \/ Fail(u)

Spec == Init /\ [][Next]_vars

-----------------------------------------------------------------------------
(* Properties *)

\* Everyone in the users table was an admin once, was named in an /allow that
\* one of those sent, or has claimed in time an invite that one of those had
\* issued: no sequence of messages, restarts and changes of ADMIN_IDS lets
\* anyone else in (docs/ARCHITECTURE.md D4).
AllowedBy(x) == {u \in marks : /\ msg[u].kind = "allow" /\ msg[u].whom = x
                               /\ msg[u].from \in trusted}
InvitedBy(x) == {c \in Codes : /\ Issued(c) /\ invites[c].used_by = x
                               /\ invites[c].used_at <= invites[c].expires_at
                               /\ invites[c].created_by \in trusted}
EveryoneWasVouchedFor ==
  \A x \in users : x \in trusted \/ AllowedBy(x) # {} \/ InvitedBy(x) # {}

\* One invite lets one person in, the one its row names, however many send
\* /start with its code and however often it is delivered: the one-time claim
\* of redeem_invite.
OneGuestPerInvite ==
  \A e, f \in entered : e[1] = f[1] => e[2] = f[2]

\* An invite is spent on someone who is in by the same commit: if the handler
\* behind the claim fails, the guest may try the link again.
SpentOnAGuest ==
  \A c \in Codes : Issued(c) /\ invites[c].used_by # Nobody =>
    /\ invites[c].used_by \in users
    /\ <<c, invites[c].used_by>> \in entered

\* Nobody spends a second invite, by trying another link or by a redelivery:
\* whoever is in does not get as far as redeem_invite.
OneInvitePerGuest ==
  \A e, f \in entered : e[2] = f[2] => e[1] = f[1]

\* An update of a group, or of someone who was refused, leaves no mark, so that
\* it costs no row and is judged afresh if it is delivered again: what is
\* marked came in private from someone who is in.
MarksAreOfMembers ==
  \A u \in marks : msg[u].private /\ msg[u].from \in users
=============================================================================
