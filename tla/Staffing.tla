------------------------------ MODULE Staffing ------------------------------
(***************************************************************************)
(* Who belongs to a center and who staffs its classes: invitations into a  *)
(* center (features/invitations), the removal of a member (centers),       *)
(* invitations to a class (classinvites), staff stints (classstaff) and    *)
(* the handoff of a class to another teacher (handoff).                    *)
(*                                                                         *)
(* A person is an account with its phone; the owners of the centers, whose *)
(* membership never ends, are left out.  A request that writes on what it  *)
(* read before is a call of several steps; what a transaction writes is    *)
(* seen at its commit, and the rows it has locked until then are in its    *)
(* call.                                                                   *)
(***************************************************************************)
EXTENDS Naturals, FiniteSets

CONSTANTS
  Calls,       \* requests of several steps
  Persons, Centers, Classes,
  First,       \* the center everyone but the outsiders starts in
  CenterOf,    \* the center of a class
  Primary,     \* the teacher every class starts with
  Outsiders,   \* persons without an account, or who were in every center and are in none
  Guests,      \* whom invitations into a center are sent to
  Invites,     \* ids of invitations into a center
  Offers,      \* ids of invitations to a class
  FirstOffers, \* the invitations to a class there are at the start
  Stints       \* ids of active staff stints

\* The remaining role, "hoc_vu", is treated as "tro_giang" is.
Roles == {"giao_vien", "tro_giang"}
None  == "none"

ASSUME StaffingConstants ==
  /\ First \in Centers /\ CenterOf = [k \in Classes |-> First]
  /\ Primary \in [Classes -> Persons]
  /\ Outsiders \subseteq Persons \ {Primary[k] : k \in Classes}
  /\ Guests \subseteq Persons
  /\ None \notin Persons \cup Centers \cup Classes \cup Offers \cup Invites
  /\ Classes \subseteq Stints

VARIABLES
  account,   \* user_accounts.status
  home,      \* teachers.center_id
  member,    \* center_members: no row, left_at NULL or set
  invite,    \* invitations; "lapsed" is a pending one past expires_at
  teacher,   \* classes.teacher_id
  offer,     \* class_invitations
  stint,     \* the active rows of class_staff
  call,      \* the requests
  raced,     \* history: persons written to a class while they were not, or were ceasing
             \* to be, members
  overtaken  \* history: classes whose last handoff relied on what was no longer so

center == <<account, home, member, invite>>
vars   == <<center, teacher, offer, stint, call, raced, overtaken>>

NoInvite == [center |-> None, person |-> None, status |-> None]
NoOffer  == [class |-> None, person |-> None, role |-> None, status |-> None]
NoStint  == [class |-> None, person |-> None, role |-> None]
Idle     == [at |-> "new", op |-> None, center |-> None, class |-> None, person |-> None,
             role |-> None, row |-> None, seen |-> None, offers |-> {}, stints |-> {}]
InviteStatus == {None, "pending", "lapsed", "accepted", "revoked"}
OfferStatus  == {None, "pending", "accepted", "declined", "cancelled", "assigned"}
InviteRows == [center : Centers \cup {None}, person : Persons \cup {None}, status : InviteStatus]
OfferRows  == [class : Classes \cup {None}, person : Persons \cup {None}, role : Roles \cup {None},
               status : OfferStatus]
StintRows  == [class : Classes \cup {None}, person : Persons \cup {None}, role : Roles \cup {None}]
ASSUME FirstOffersAreOpen ==
  /\ FirstOffers \in [Offers -> OfferRows]
  /\ \A o \in Offers : FirstOffers[o] # NoOffer =>
       /\ FirstOffers[o].class \in Classes /\ FirstOffers[o].role \in Roles
       /\ FirstOffers[o].person \in Persons \ Outsiders
       /\ FirstOffers[o].status \in {"pending", "accepted"}

Stages ==
  {"new", "done", "invited", "creating", "reactivating", "judged", "cancelling", "cancelled", "closing",
   "proposed", "answering", "confirming", "appointing", "assigning", "judging", "syncing", "closed",
   "skipped"}
Requests ==
  [at : Stages,
   op : {None, "join", "remove", "send", "answer", "confirm", "assign", "handoff"},
   center : Centers \cup {None}, class : Classes \cup {None}, person : Persons \cup {None},
   role : Roles \cup {None}, row : Invites \cup Offers \cup {None},
   seen : Persons \cup OfferStatus,
   offers : SUBSET Offers, stints : SUBSET Stints]

Done     == [Idle EXCEPT !.at = "done"]

TypeOK ==
  /\ account \in [Persons -> {None, "active", "disabled"}]
  /\ home \in [Persons -> Centers \cup {None}]
  /\ member \in [Persons -> [Centers -> {None, "live", "left"}]]
  /\ invite \in [Invites -> InviteRows]
  /\ teacher \in [Classes -> Persons]
  /\ offer \in [Offers -> OfferRows]
  /\ stint \in [Stints -> StintRows]
  /\ call \in [Calls -> Requests]
  /\ raced \subseteq Persons /\ overtaken \subseteq Classes

\* GetTeacherInCenter and IsActiveMember look at the account, not at the membership.
IsActive(p, c) == account[p] = "active" /\ home[p] = c
IsLive(p, c)   == member[p][c] = "live"

Unanswered(i)  == invite[i].status \in {"pending", "lapsed"}
Open(o)        == offer[o].status \in {"pending", "accepted"}
Active         == {s \in Stints : stint[s] # NoStint}
StintsOf(p, k) == {s \in Active : stint[s].class = k /\ stint[s].person = p}
StintsIn(p, c) == {s \in Active : stint[s].person = p /\ CenterOf[stint[s].class] = c}
OffersIn(p, c) == {o \in Offers : Open(o) /\ offer[o].person = p /\ CenterOf[offer[o].class] = c}

-----------------------------------------------------------------------------
Init ==
  /\ \E new \in SUBSET Outsiders :
       LET old == Outsiders \ new
       IN /\ account = [p \in Persons |-> IF p \in new THEN None
                                         ELSE IF p \in old THEN "disabled" ELSE "active"]
          /\ home = [p \in Persons |-> IF p \in new THEN None ELSE First]
          /\ member = [p \in Persons |-> [c \in Centers |->
                         IF p \in old THEN "left"
                         ELSE IF p \notin new /\ c = First THEN "live" ELSE None]]
  /\ invite = [i \in Invites |-> NoInvite]
  /\ teacher = Primary
  /\ offer = FirstOffers
  /\ stint = [s \in Stints |-> IF s \in Classes
                               THEN [class |-> s, person |-> Primary[s], role |-> "giao_vien"]
                               ELSE NoStint]
  /\ call = [x \in Calls |-> Idle]
  /\ raced = {} /\ overtaken = {}

Step(x, at)   == call' = [call EXCEPT ![x].at = at]
Finish(x)     == call' = [call EXCEPT ![x] = Done]
Reject(x)     == Finish(x) /\ UNCHANGED <<center, teacher, offer, stint, raced, overtaken>>

\* Rows locked by a transaction that has not committed.

\* Mutant of InviteLocked: Accept reads the row without FOR UPDATE.
NeverLocked(i) == FALSE

InviteLocked(i) == \E x \in Calls : call[x].op = "join" /\ call[x].row = i
OfferLocked(o)  == \E x \in Calls : call[x].at # "cancelling" /\ o \in call[x].offers
StintLocked(s)  == \E x \in Calls : call[x].at = "closed" /\ s \in call[x].stints

\* p is written to a class of c: is p a member, and will the removals under way see it?
Raced(p, c, missed) ==
  raced' = IF IsLive(p, c)
              /\ \A y \in Calls : call[y].op = "remove" /\ call[y].person = p /\ call[y].center = c
                                 => call[y].at \notin missed
           THEN raced ELSE raced \cup {p}
-----------------------------------------------------------------------------
\* Invitations into a center.

\* Create revokes what is pending for the phone and inserts; a concurrent Create
\* that loses against the unique index hands out the survivor.
Create(c, p, i) ==
  LET old == {j \in Invites : Unanswered(j) /\ invite[j].center = c /\ invite[j].person = p}
  IN /\ invite[i] = NoInvite
     /\ \A j \in old : ~InviteLocked(j)
     /\ invite' = [j \in Invites |->
          IF j = i THEN [center |-> c, person |-> p, status |-> "pending"]
          ELSE IF j \in old THEN [invite[j] EXCEPT !.status = "revoked"] ELSE invite[j]]
     /\ UNCHANGED <<account, home, member, teacher, offer, stint, call, raced, overtaken>>

Expire(i) ==
  /\ invite[i].status = "pending"
  /\ invite' = [invite EXCEPT ![i].status = "lapsed"]
  /\ UNCHANGED <<account, home, member, teacher, offer, stint, call, raced, overtaken>>

Revoke(i) ==
  /\ Unanswered(i) /\ ~InviteLocked(i)
  /\ invite' = [invite EXCEPT ![i].status = "revoked"]
  /\ UNCHANGED <<account, home, member, teacher, offer, stint, call, raced, overtaken>>

\* Accept locks the invitation and judges it.
Accept(x, i) ==
  /\ call[x].at = "new"
  /\ invite[i].status = "pending" /\ ~InviteLocked(i)
  /\ call' = [call EXCEPT ![x] = [Idle EXCEPT !.at = "invited", !.op = "join", !.row = i,
                                              !.person = invite[i].person, !.center = invite[i].center]]
  /\ UNCHANGED <<center, teacher, offer, stint, raced, overtaken>>

\* FindByPhone and WasEverMember choose the branch.
FindByPhone(x) ==
  LET p == call[x].person  c == call[x].center
  IN /\ call[x].at = "invited"
     /\ IF account[p] = None THEN Step(x, "creating")
        ELSE IF account[p] = "disabled" /\ (member[p][c] # None \/ home[p] = c)
             THEN Step(x, "reactivating") ELSE Finish(x)
     /\ UNCHANGED <<center, teacher, offer, stint, raced, overtaken>>

\* Mutant of Joins: no SwitchTeacherCenter.
JoinsUnswitched(x) ==
  LET p == call[x].person  c == call[x].center
  IN /\ account' = [account EXCEPT ![p] = "active"]
     /\ home' = IF account[p] = None THEN [home EXCEPT ![p] = c] ELSE home
     /\ member' = [member EXCEPT ![p][c] = "live"]
     /\ stint' = [s \in Stints |-> IF s \in StintsIn(p, c) THEN NoStint ELSE stint[s]]
     /\ invite' = [invite EXCEPT ![call[x].row].status = "accepted"]
     /\ Finish(x)
     /\ UNCHANGED <<teacher, offer, raced, overtaken>>

\* OpenMembership; the index on live memberships admits one.
Joins(x) ==
  LET p == call[x].person  c == call[x].center
  IN /\ account' = [account EXCEPT ![p] = "active"]
     /\ home' = [home EXCEPT ![p] = c]
     /\ member' = [member EXCEPT ![p][c] = "live"]
     /\ stint' = [s \in Stints |-> IF s \in StintsIn(p, c) THEN NoStint ELSE stint[s]]
     /\ invite' = [invite EXCEPT ![call[x].row].status = "accepted"]
     /\ Finish(x)
     /\ UNCHANGED <<teacher, offer, raced, overtaken>>

Admitted(p, c) ==
  /\ \A d \in Centers \ {c} : ~IsLive(p, d)
  /\ \A s \in StintsIn(p, c) : ~StintLocked(s)

\* CreateInCenter, refused when the phone has got an account.
CreateInCenter(x) ==
  /\ call[x].at = "creating"
  /\ \/ account[call[x].person] = None /\ Admitted(call[x].person, call[x].center) /\ Joins(x)
     \/ account[call[x].person] # None /\ Reject(x)

\* Reactivate, refused when the account is disabled no longer; then the membership
\* is opened and SwitchTeacherCenter makes the center the person's.
Reactivate(x) ==
  /\ call[x].at = "reactivating"
  /\ \/ account[call[x].person] = "disabled" /\ Admitted(call[x].person, call[x].center) /\ Joins(x)
     \/ account[call[x].person] # "disabled" /\ Reject(x)
-----------------------------------------------------------------------------
\* The removal of a member.

RemoveMember(x, c, p) ==
  /\ call[x].at = "new" /\ IsActive(p, c)
  /\ call' = [call EXCEPT ![x] = [Idle EXCEPT !.at = "judged", !.op = "remove",
                                              !.center = c, !.person = p]]
  /\ UNCHANGED <<center, teacher, offer, stint, raced, overtaken>>

\* Mutant of CancelOpenForMember: the canceller is not wired.
CancelsNothing(x) ==
  /\ call[x].at = "judged" /\ call[x].op = "remove"
  /\ Step(x, "cancelled")
  /\ UNCHANGED <<center, teacher, offer, stint, raced, overtaken>>

\* The tasks are handed over (Board), then an UPDATE cancels the invitations to classes
\* that are open when it begins ...
CancelOpenForMember(x) ==
  /\ call[x].at = "judged" /\ call[x].op = "remove"
  /\ call' = [call EXCEPT ![x].at = "cancelling", ![x].offers = OffersIn(call[x].person, call[x].center)]
  /\ UNCHANGED <<center, teacher, offer, stint, raced, overtaken>>

\* ... and, once it has got them, are open still.
CancelsOpen(x) ==
  /\ call[x].at = "cancelling" /\ \A o \in call[x].offers : ~OfferLocked(o)
  /\ call' = [call EXCEPT ![x].at = "cancelled", ![x].offers = {o \in @ : Open(o)}]
  /\ UNCHANGED <<center, teacher, offer, stint, raced, overtaken>>

\* CloseMembership ends the stints there are when the statement begins ...
CloseMembership(x) ==
  /\ call[x].at = "cancelled"
  /\ call' = [call EXCEPT ![x].at = "closing", ![x].stints = StintsIn(call[x].person, call[x].center)]
  /\ UNCHANGED <<center, teacher, offer, stint, raced, overtaken>>

\* Its writes, Disable's and the commit, once it has got the rows.
Removes(x) ==
  LET p == call[x].person  c == call[x].center
  IN /\ member' = [member EXCEPT ![p][c] = "left"]
     /\ account' = [account EXCEPT ![p] = "disabled"]
     /\ offer' = [o \in Offers |-> IF o \in call[x].offers
                                   THEN [offer[o] EXCEPT !.status = "cancelled"] ELSE offer[o]]
     /\ stint' = [s \in Stints |-> IF s \in call[x].stints THEN NoStint ELSE stint[s]]
     /\ Finish(x)
     /\ UNCHANGED <<home, invite, teacher, raced, overtaken>>

\* ... and fails the transaction when the membership is closed already.
Disable(x) ==
  /\ call[x].at = "closing" /\ \A s \in call[x].stints : ~StintLocked(s)
  /\ \/ IsLive(call[x].person, call[x].center) /\ Removes(x)
     \/ ~IsLive(call[x].person, call[x].center) /\ Reject(x)
-----------------------------------------------------------------------------
\* Invitations to a class.

\* refuseHeldRole: a support role is for those without a stint in the class.
Proposable(p, k, role) ==
  \A s \in StintsOf(p, k) : role = "giao_vien" /\ stint[s].role # role
Pending(p, k) ==
  \E o \in Offers : offer[o].status = "pending" /\ offer[o].person = p /\ offer[o].class = k

Send(x, k, p, role) ==
  /\ call[x].at = "new"
  /\ IsActive(p, CenterOf[k]) /\ ~Pending(p, k) /\ Proposable(p, k, role)
  /\ call' = [call EXCEPT ![x] = [Idle EXCEPT !.at = "proposed", !.op = "send", !.center = CenterOf[k],
                                              !.class = k, !.person = p, !.role = role]]
  /\ UNCHANGED <<center, teacher, offer, stint, raced, overtaken>>

\* The index on pending invitations refuses a second one.
SendInserts(x, o) ==
  LET p == call[x].person  k == call[x].class
  IN /\ call[x].at = "proposed"
     /\ \/ /\ ~Pending(p, k) /\ offer[o] = NoOffer
           /\ offer' = [offer EXCEPT ![o] = [class |-> k, person |-> p, role |-> call[x].role,
                                              status |-> "pending"]]
           /\ Raced(p, call[x].center, {"cancelling", "cancelled", "closing"})
           /\ Finish(x)
           /\ UNCHANGED <<center, teacher, stint, overtaken>>
        \/ Pending(p, k) /\ Reject(x)

\* The statuses a change to another is made from.
From(to) == IF to \in {"accepted", "declined"} THEN {"pending"} ELSE {"pending", "accepted"}

\* Transition's WHERE.
Changeable(o, to) == offer[o].status \in From(to)

\* Accept and Decline by the member, Cancel by the owner: the status read ...
Answer(x, o, to) ==
  /\ call[x].at = "new"
  /\ offer[o].status \in From(to)
  /\ to = "cancelled" \/ IsActive(offer[o].person, CenterOf[offer[o].class])
  /\ call' = [call EXCEPT ![x] = [Idle EXCEPT !.at = "answering", !.op = "answer", !.row = o, !.seen = to]]
  /\ UNCHANGED <<center, teacher, offer, stint, raced, overtaken>>

\* ... and changed.
Transition(x) ==
  LET o == call[x].row  to == call[x].seen
  IN /\ call[x].at = "answering" /\ ~OfferLocked(o)
     /\ \/ /\ Changeable(o, to)
           /\ offer' = [offer EXCEPT ![o].status = to]
           /\ Finish(x)
           /\ UNCHANGED <<center, teacher, stint, raced, overtaken>>
        \/ ~Changeable(o, to) /\ Reject(x)

\* Confirm judges the invitation and the member ...
Confirm(x, o) ==
  LET k == offer[o].class
  IN /\ call[x].at = "new"
     /\ Open(o) /\ IsActive(offer[o].person, CenterOf[k])
     /\ call' = [call EXCEPT ![x] =
          [Idle EXCEPT !.at = "confirming", !.op = "confirm", !.row = o, !.center = CenterOf[k],
                       !.class = k, !.person = offer[o].person, !.role = offer[o].role]]
     /\ UNCHANGED <<center, teacher, offer, stint, raced, overtaken>>

\* ... and begins its transaction with the change of status.
ConfirmTransition(x) ==
  /\ call[x].at = "confirming" /\ ~OfferLocked(call[x].row)
  /\ \/ /\ Changeable(call[x].row, "assigned")
        /\ call' = [call EXCEPT ![x].at = "appointing", ![x].offers = {call[x].row}]
        /\ UNCHANGED <<center, teacher, offer, stint, raced, overtaken>>
     \/ ~Changeable(call[x].row, "assigned") /\ Reject(x)

\* The status a transaction writes at its commit, if it confirms.
Assigned(x) == [o \in Offers |-> IF o \in call[x].offers THEN [offer[o] EXCEPT !.status = "assigned"]
                                 ELSE offer[o]]
-----------------------------------------------------------------------------
\* Staff stints and handoffs, on their own or in the transaction of a Confirm.

New(s) == stint[s] = NoStint /\ \A y \in Calls : s \notin call[y].stints

\* Assign judges the member and their stints ...
Assignable(p, k) == IsActive(p, CenterOf[k]) /\ StintsOf(p, k) = {}

Assign(x, k, p) ==
  /\ call[x].at = "new" /\ Assignable(p, k)
  /\ call' = [call EXCEPT ![x] = [Idle EXCEPT !.at = "assigning", !.op = "assign", !.center = CenterOf[k],
                                              !.class = k, !.person = p, !.role = "tro_giang"]]
  /\ UNCHANGED <<center, teacher, offer, stint, raced, overtaken>>

ConfirmAssigns(x) ==
  /\ call[x].at = "appointing" /\ call[x].role = "tro_giang"
  /\ IF Assignable(call[x].person, call[x].class) THEN Step(x, "assigning") ELSE Finish(x)
  /\ UNCHANGED <<center, teacher, offer, stint, raced, overtaken>>

\* ... and inserts; the index admits one active stint of a person in a class.
AssignInserts(x, s) ==
  LET p == call[x].person  k == call[x].class
  IN /\ call[x].at = "assigning"
     /\ \A t \in StintsOf(p, k) : ~StintLocked(t)
     /\ \/ /\ StintsOf(p, k) = {} /\ New(s)
           /\ stint' = [stint EXCEPT ![s] = [class |-> k, person |-> p, role |-> call[x].role]]
           /\ offer' = Assigned(x)
           /\ Raced(p, call[x].center, {"closing"})
           /\ Finish(x)
           /\ UNCHANGED <<center, teacher, overtaken>>
        \/ StintsOf(p, k) # {} /\ Reject(x)

\* Remove, which the primary teacher's stint refuses.
Remove(s) ==
  /\ s \in Active /\ stint[s].role # "giao_vien" /\ ~StintLocked(s)
  /\ stint' = [stint EXCEPT ![s] = NoStint]
  /\ UNCHANGED <<center, teacher, offer, call, raced, overtaken>>

\* Reassign reads the class; whoever teaches it needs no membership.
Teachable(p, k) == p = teacher[k] \/ IsActive(p, CenterOf[k])

Reassign(x, k, p) ==
  /\ call[x].at = "new" /\ Teachable(p, k)
  /\ call' = [call EXCEPT ![x] = [Idle EXCEPT !.at = "judging", !.op = "handoff", !.center = CenterOf[k],
                               !.class = k, !.person = p, !.role = "giao_vien", !.seen = teacher[k]]]
  /\ UNCHANGED <<center, teacher, offer, stint, raced, overtaken>>

ConfirmReassigns(x) ==
  LET k == call[x].class
  IN /\ call[x].at = "appointing" /\ call[x].role = "giao_vien"
     /\ call' = [call EXCEPT ![x] = IF Teachable(call[x].person, k)
                                    THEN [@ EXCEPT !.at = "judging", !.seen = teacher[k]] ELSE Done]
     /\ UNCHANGED <<center, teacher, offer, stint, raced, overtaken>>

HoldsCenter(x, c) == call[x].center = c /\ call[x].at \in {"syncing", "closed", "skipped"}

\* The lock of the center is refused, not waited for.
TryLockCenter(x) ==
  /\ call[x].at = "judging"
  /\ IF \E y \in Calls : HoldsCenter(y, call[x].center) THEN Finish(x) ELSE Step(x, "syncing")
  /\ UNCHANGED <<center, teacher, offer, stint, raced, overtaken>>

\* SyncPrimaryTeacher: for a live member, what contradicts the new primary is closed ...
Contradicting(p, k) ==
  {s \in Active : stint[s].class = k /\ (stint[s].role = "giao_vien" <=> stint[s].person # p)}

\* Mutant of Synced: the old teacher is handed on.
SyncedOld(x) == call[x].seen

Synced(x) == call[x].person

SyncCloses(x) ==
  LET p == Synced(x)
  IN /\ call[x].at = "syncing"
     /\ call' = [call EXCEPT ![x] =
          IF IsLive(p, call[x].center)
          THEN [@ EXCEPT !.at = "closed", !.stints = Contradicting(p, call[x].class)]
          ELSE [@ EXCEPT !.at = "skipped"]]
     /\ UNCHANGED <<center, teacher, offer, stint, raced, overtaken>>

\* ReassignTeacher, left out for the class's own teacher, and the commit.
Commits(x) ==
  LET k == call[x].class  p == call[x].person
  IN /\ teacher' = IF p = call[x].seen THEN teacher ELSE [teacher EXCEPT ![k] = p]
     /\ overtaken' = IF teacher'[k] = p /\ call[x].at = "closed" THEN overtaken \ {k}
                     ELSE overtaken \cup {k}
     /\ offer' = Assigned(x)
     /\ Finish(x)
     /\ UNCHANGED center

\* ... and a live one who has no active stint in the class is given it.
SyncInserts(x, s) ==
  LET p == Synced(x)  k == call[x].class
      rest == Active \ call[x].stints
      closed == [t \in Stints |-> IF t \in call[x].stints THEN NoStint ELSE stint[t]]
      due == IsLive(p, call[x].center) /\ StintsOf(p, k) \cap rest = {}
      primary == \E t \in rest : stint[t].class = k /\ stint[t].role = "giao_vien"
  IN /\ call[x].at \in {"closed", "skipped"}
     /\ \/ /\ due /\ ~primary /\ New(s)
           /\ stint' = [closed EXCEPT ![s] = [class |-> k, person |-> p, role |-> "giao_vien"]]
           /\ Raced(p, call[x].center, {"closing"})
           /\ Commits(x)
        \/ ~due /\ stint' = closed /\ Commits(x) /\ UNCHANGED raced
        \/ due /\ primary /\ Reject(x)
-----------------------------------------------------------------------------
Inviting ==
  \E i \in Invites :
    \/ Expire(i) \/ Revoke(i)
    \/ \E c \in Centers, p \in Guests : Create(c, p, i)
    \/ \E x \in Calls : Accept(x, i)
Joining == \E x \in Calls : FindByPhone(x) \/ CreateInCenter(x) \/ Reactivate(x)

Removing ==
  \E x \in Calls :
    \/ \E c \in Centers, p \in Persons : RemoveMember(x, c, p)
    \/ CancelOpenForMember(x) \/ CancelsOpen(x) \/ CloseMembership(x) \/ Disable(x)

Proposing ==
  \E x \in Calls :
    \/ \E k \in Classes, p \in Persons, role \in Roles : Send(x, k, p, role)
    \/ \E o \in Offers :
         \/ SendInserts(x, o) \/ Confirm(x, o)
         \/ \E to \in {"accepted", "declined", "cancelled"} : Answer(x, o, to)
    \/ Transition(x) \/ ConfirmTransition(x)

Appointing ==
  \/ \E x \in Calls :
       \/ \E k \in Classes, p \in Persons : Assign(x, k, p) \/ Reassign(x, k, p)
       \/ ConfirmAssigns(x) \/ ConfirmReassigns(x) \/ TryLockCenter(x) \/ SyncCloses(x)
       \/ \E s \in Stints : AssignInserts(x, s) \/ SyncInserts(x, s)
  \/ \E s \in Stints : Remove(s)

Next == Inviting \/ Joining \/ Removing \/ Proposing \/ Appointing

Spec == Init /\ [][Next]_vars
-----------------------------------------------------------------------------
\* Properties.

\* An account is active exactly while its person is a live member of one center, the one
\* teachers.center_id names, whatever invitations of several centers are accepted and
\* whoever removes whom meanwhile: the premise of every scope the API resolves.
OneLivePlace ==
  \A p \in Persons, c \in Centers :
    IsLive(p, c) <=> account[p] = "active" /\ home[p] = c

\* The end of an invitation, into a center or to a class, is final: a revoked one is never
\* accepted, a declined or cancelled one never confirmed, whoever judged it before.
VerdictsAreFinal ==
  [][/\ \A i \in Invites : invite[i].status \in {"accepted", "revoked"} => invite'[i] = invite[i]
     /\ \A o \in Offers : offer[o] # NoOffer /\ ~Open(o) => offer'[o] = offer[o]]_vars

\* Who is no member holds no stint and no invitation to a class that the owner could
\* still confirm (classinvites/service.go:299-300), unless it was written while the
\* removal was under way or after it.
RemovedHoldsNothing ==
  \A p \in Persons \ raced, c \in Centers :
    ~IsLive(p, c) => StintsIn(p, c) = {} /\ OffersIn(p, c) = {}

\* The active primary stint of a class is that of the teacher it names
\* (classes/service.go:25-27), and a handoff repairs whatever made them differ, unless it
\* found the class another's than it had read, or its teacher no member any more.
PrimaryIsTeacher ==
  \A k \in Classes \ overtaken, s \in Stints :
    stint[s].class = k /\ stint[s].role = "giao_vien" => stint[s].person = teacher[k]
=============================================================================
