--------------------------- MODULE StaffingProofs ---------------------------
(***************************************************************************)
(* What holds of Staffing for any number of persons, centers, classes,     *)
(* invitations, stints and requests.                                       *)
(***************************************************************************)
EXTENDS Staffing, TLAPS

JoinStages    == {"invited", "creating", "reactivating"}
RemoveStages  == {"judged", "cancelling", "cancelled", "closing"}
AppointStages == {"confirming", "appointing", "assigning", "judging", "syncing", "closed", "skipped"}

\* A row that is there names a person, a center or a class.
Rows ==
  /\ \A i \in Invites : Unanswered(i) => invite[i].person \in Persons /\ invite[i].center \in Centers
  /\ \A o \in Offers : Open(o) => offer[o].class \in Classes /\ offer[o].person \in Persons
                                  /\ offer[o].role \in Roles
  /\ \A s \in Active : stint[s].class \in Classes /\ stint[s].person \in Persons
                       /\ stint[s].role \in Roles

\* What a request knows at each of its stages.
Shaped(r) ==
  /\ r.op = "join" <=> r.at \in JoinStages
  /\ r.op = "remove" <=> r.at \in RemoveStages
  /\ r.at \in JoinStages => r.row \in Invites
  /\ r.at \in JoinStages \cup RemoveStages => r.person \in Persons /\ r.center \in Centers
  /\ r.at \in {"proposed"} \cup AppointStages =>
       /\ r.class \in Classes /\ r.person \in Persons /\ r.role \in Roles
       /\ r.center = CenterOf[r.class]
  /\ r.at \in {"answering", "confirming"} => r.row \in Offers
  /\ r.at = "answering" => r.seen \in {"accepted", "declined", "cancelled"}
  /\ r.offers # {} => r.at \in {"cancelling", "cancelled", "closing"} \cup AppointStages
  /\ r.stints # {} => r.at \in {"closing", "closed"}

TypeInv == TypeOK /\ Rows /\ \A x \in Calls : Shaped(call[x])

-----------------------------------------------------------------------------
(* Type correctness. *)

\* What a step makes of the one request it is of.
LEMMA CallStep ==
  ASSUME TypeOK, NEW x \in Calls, NEW r \in Requests, call' = [call EXCEPT ![x] = r]
  PROVE  /\ call' \in [Calls -> Requests]
         /\ call'[x] = r
         /\ \A y \in Calls : y # x => call'[y] = call[y]
BY DEF TypeOK

LEMMA IdleShaped == Idle \in Requests /\ Done \in Requests /\ Shaped(Idle) /\ Shaped(Done)
BY StaffingConstants DEF None, Idle, Done, Requests, Stages, OfferStatus, Shaped, JoinStages, RemoveStages, AppointStages

\* A request that only gets on.
LEMMA StepShape ==
  ASSUME TypeInv, NEW x \in Calls,
         NEW r \in Requests, Shaped(r), call' = [call EXCEPT ![x] = r]
  PROVE  call' \in [Calls -> Requests] /\ \A y \in Calls : Shaped(call'[y])
BY CallStep DEF TypeInv

LEMMA StepMoves ==
  ASSUME TypeInv, NEW x \in Calls, NEW at \in Stages, Step(x, at)
  PROVE  /\ [call[x] EXCEPT !.at = at] \in Requests
         /\ call' = [call EXCEPT ![x] = [call[x] EXCEPT !.at = at]]
<1>1. call[x] \in Requests
  BY DEF TypeInv, TypeOK
<1>2. [call[x] EXCEPT !.at = at] \in Requests
  BY <1>1 DEF Requests
<1> QED
  BY <1>2 DEF Step

\* The status of a row changes, or the row is cleared.
LEMMA RowTypes ==
  /\ \A i \in InviteRows, st \in InviteStatus : [i EXCEPT !.status = st] \in InviteRows
  /\ \A o \in OfferRows, st \in OfferStatus : [o EXCEPT !.status = st] \in OfferRows
  /\ NoInvite \in InviteRows /\ NoOffer \in OfferRows /\ NoStint \in StintRows
BY DEF InviteRows, OfferRows, StintRows, InviteStatus, OfferStatus, NoInvite, NoOffer, NoStint

LEMMA FinishShape ==
  ASSUME TypeInv, NEW x \in Calls, Finish(x)
  PROVE  call' \in [Calls -> Requests] /\ \A y \in Calls : Shaped(call'[y])
BY StepShape, IdleShaped DEF Finish

LEMMA RejectKeeps ==
  ASSUME TypeInv, NEW x \in Calls, Reject(x)
  PROVE  TypeInv'
BY FinishShape DEF Reject, center, TypeInv, TypeOK, Rows, Unanswered, Open, Active

\* A request that has only got on keeps the rest.
LEMMA RowsKept ==
  ASSUME TypeInv, UNCHANGED <<center, teacher, offer, stint, raced, overtaken>>,
         call' \in [Calls -> Requests], \A y \in Calls : Shaped(call'[y])
  PROVE  TypeInv'
BY DEF center, TypeInv, TypeOK, Rows, Unanswered, Open, Active

\* The same for a request told by what it becomes.
LEMMA Moved ==
  ASSUME TypeInv, NEW x \in Calls, NEW r \in Requests, Shaped(r), call' = [call EXCEPT ![x] = r],
         UNCHANGED <<center, teacher, offer, stint, raced, overtaken>>
  PROVE  TypeInv'
BY StepShape, RowsKept

LEMMA InvitingTypes == TypeInv /\ Inviting => TypeInv'
<1> SUFFICES ASSUME TypeInv, NEW i \in Invites,
                    \/ Expire(i) \/ Revoke(i)
                    \/ \E c \in Centers, p \in Guests : Create(c, p, i)
                    \/ \E x \in Calls : Accept(x, i)
             PROVE  TypeInv'
  BY DEF Inviting
<1> USE DEF TypeInv
<1>1. CASE Expire(i) \/ Revoke(i)
  <2>1. PICK st \in {"lapsed", "revoked"} : invite' = [invite EXCEPT ![i].status = st]
    BY <1>1 DEF Expire, Revoke
  <2>2. invite' \in [Invites -> InviteRows]
    BY <2>1, RowTypes DEF TypeOK, InviteStatus
  <2>3. Unanswered(i)
    BY <1>1 DEF Expire, Revoke, Unanswered
  <2>4. \A j \in Invites : invite'[j].status \in {"pending", "lapsed"} =>
          invite'[j].person \in Persons /\ invite'[j].center \in Centers
    BY <2>1, <2>3 DEF TypeOK, InviteRows, Rows, Unanswered
  <2> QED
    BY <1>1, <2>2, <2>4 DEF Expire, Revoke, TypeOK, Rows, Unanswered, Open, Active
<1>2. ASSUME NEW c \in Centers, NEW p \in Guests, Create(c, p, i)
      PROVE  TypeInv'
  <2>1. p \in Persons
    BY StaffingConstants
  <2>2. invite' \in [Invites -> InviteRows]
    <3>1. PICK old \in SUBSET Invites :
            invite' = [j \in Invites |->
              IF j = i THEN [center |-> c, person |-> p, status |-> "pending"]
              ELSE IF j \in old THEN [invite[j] EXCEPT !.status = "revoked"] ELSE invite[j]]
      BY <1>2 DEF Create
    <3>2. [center |-> c, person |-> p, status |-> "pending"] \in InviteRows
      BY <2>1 DEF InviteRows, InviteStatus
    <3>3. \A j \in Invites : invite[j] \in InviteRows
                             /\ [invite[j] EXCEPT !.status = "revoked"] \in InviteRows
      BY RowTypes DEF InviteStatus, TypeOK
    <3> QED
      BY <3>1, <3>2, <3>3
  <2>3. \A j \in Invites : invite'[j].status \in {"pending", "lapsed"} =>
          invite'[j].person \in Persons /\ invite'[j].center \in Centers
    BY <1>2, <2>1 DEF Create, TypeOK, InviteRows, Rows, Unanswered
  <2> QED
    BY <1>2, <2>2, <2>3 DEF Create, TypeOK, Rows, Unanswered, Open, Active
<1>3. ASSUME NEW x \in Calls, Accept(x, i)
      PROVE  TypeInv'
  <2> DEFINE r == [Idle EXCEPT !.at = "invited", !.op = "join", !.row = i,
                               !.person = invite[i].person, !.center = invite[i].center]
  <2>1. invite[i].person \in Persons /\ invite[i].center \in Centers
    BY <1>3 DEF Accept, Rows, Unanswered
  <2>2. r \in Requests
    BY <2>1, StaffingConstants DEF None, Idle, Requests, Stages, OfferStatus
  <2>3. Shaped(r)
    BY <2>1 DEF None, Idle, Shaped, JoinStages, RemoveStages, AppointStages
  <2> QED
    BY <1>3, <2>2, <2>3, Moved DEF Accept
<1> QED
  BY <1>1, <1>2, <1>3

LEMMA JoinsTypes ==
  ASSUME TypeInv, NEW x \in Calls, call[x].op = "join", Joins(x)
  PROVE  TypeInv'
<1> DEFINE p == call[x].person
<1> DEFINE c == call[x].center
<1>1. p \in Persons /\ c \in Centers /\ call[x].row \in Invites
  BY DEF TypeInv, Shaped
<1>2. call' \in [Calls -> Requests] /\ \A y \in Calls : Shaped(call'[y])
  BY FinishShape DEF Joins
<1>3. /\ account' \in [Persons -> {None, "active", "disabled"}]
      /\ home' \in [Persons -> Centers \cup {None}]
      /\ member' \in [Persons -> [Centers -> {None, "live", "left"}]]
  BY <1>1 DEF Joins, TypeInv, TypeOK
<1>4. invite' \in [Invites -> InviteRows]
  BY <1>1, RowTypes DEF Joins, TypeInv, TypeOK, InviteStatus
<1>5. \A i \in Invites : invite'[i].status \in {"pending", "lapsed"} => invite'[i] = invite[i]
  BY <1>1 DEF Joins, TypeInv, TypeOK, InviteRows
<1>6. stint' \in [Stints -> StintRows]
      /\ \A s \in Stints : stint'[s] \in {stint[s], NoStint}
  BY RowTypes DEF Joins, TypeInv, TypeOK
<1> QED
  BY <1>2, <1>3, <1>4, <1>5, <1>6 DEF Joins, TypeInv, TypeOK, Rows, Unanswered, Open, Active

LEMMA JoiningTypes == TypeInv /\ Joining => TypeInv'
<1> SUFFICES ASSUME TypeInv, NEW x \in Calls, FindByPhone(x) \/ CreateInCenter(x) \/ Reactivate(x)
             PROVE  TypeInv'
  BY DEF Joining
<1>1. CASE FindByPhone(x)
  <2>1. ASSUME NEW at \in {"creating", "reactivating"}, Step(x, at)
        PROVE  TypeInv'
    <3> DEFINE r == [call[x] EXCEPT !.at = at]
    <3>1. at \in Stages
      BY DEF Stages
    <3>2. r \in Requests /\ call' = [call EXCEPT ![x] = r]
      BY <2>1, <3>1, StepMoves
    <3>3. Shaped(r)
      BY <1>1, <2>1 DEF FindByPhone, TypeInv, TypeOK, Requests, Shaped, JoinStages, RemoveStages, AppointStages
    <3> QED
      BY <1>1, <3>2, <3>3, Moved DEF FindByPhone
  <2>2. ASSUME Finish(x)
        PROVE  TypeInv'
    BY <1>1, <2>2, FinishShape, RowsKept DEF FindByPhone
  <2> QED
    BY <1>1, <2>1, <2>2 DEF FindByPhone
<1>2. CASE CreateInCenter(x) \/ Reactivate(x)
  BY <1>2, JoinsTypes, RejectKeeps DEF CreateInCenter, Reactivate, TypeInv, Shaped, JoinStages
<1> QED
  BY <1>1, <1>2

LEMMA RemovingTypes == TypeInv /\ Removing => TypeInv'
<1> SUFFICES ASSUME TypeInv, NEW x \in Calls,
                    \/ \E c \in Centers, p \in Persons : RemoveMember(x, c, p)
                    \/ CancelOpenForMember(x) \/ CancelsOpen(x) \/ CloseMembership(x) \/ Disable(x)
             PROVE  TypeInv'
  BY DEF Removing
<1>0. call[x] \in Requests /\ Shaped(call[x])
  BY DEF TypeInv, TypeOK
<1>1. ASSUME NEW c \in Centers, NEW p \in Persons, RemoveMember(x, c, p)
      PROVE  TypeInv'
  <2> DEFINE r == [Idle EXCEPT !.at = "judged", !.op = "remove", !.center = c, !.person = p]
  <2>1. r \in Requests
    BY StaffingConstants DEF None, Idle, Requests, Stages, OfferStatus
  <2>2. Shaped(r)
    BY DEF None, Idle, Shaped, JoinStages, RemoveStages, AppointStages
  <2> QED
    BY <1>1, <2>1, <2>2, Moved DEF RemoveMember
<1>2. CASE CancelOpenForMember(x)
  <2> DEFINE r == [call[x] EXCEPT !.at = "cancelling",
                                  !.offers = OffersIn(call[x].person, call[x].center)]
  <2>1. r \in Requests
    BY <1>0 DEF Requests, Stages, OffersIn
  <2>2. Shaped(r)
    BY <1>0, <1>2 DEF CancelOpenForMember, Requests, Shaped, JoinStages, RemoveStages, AppointStages
  <2>3. call' = [call EXCEPT ![x] = r]
    BY <1>2 DEF CancelOpenForMember
  <2> QED
    BY <1>2, <2>1, <2>2, <2>3, Moved DEF CancelOpenForMember
<1>2a. CASE CancelsOpen(x)
  <2> DEFINE r == [call[x] EXCEPT !.at = "cancelled", !.offers = {o \in call[x].offers : Open(o)}]
  <2>1. r \in Requests
    BY <1>0 DEF Requests, Stages
  <2>2. Shaped(r)
    BY <1>0, <1>2a DEF CancelsOpen, Requests, Shaped, JoinStages, RemoveStages, AppointStages
  <2>3. call' = [call EXCEPT ![x] = r]
    BY <1>2a DEF CancelsOpen
  <2> QED
    BY <1>2a, <2>1, <2>2, <2>3, Moved DEF CancelsOpen
<1>3. CASE CloseMembership(x)
  <2> DEFINE r == [call[x] EXCEPT !.at = "closing",
                                  !.stints = StintsIn(call[x].person, call[x].center)]
  <2>1. r \in Requests
    BY <1>0 DEF Requests, Stages, StintsIn, Active
  <2>2. Shaped(r)
    BY <1>0, <1>3 DEF CloseMembership, Requests, Shaped, JoinStages, RemoveStages, AppointStages
  <2>3. call' = [call EXCEPT ![x] = r]
    BY <1>3 DEF CloseMembership
  <2> QED
    BY <1>3, <2>1, <2>2, <2>3, Moved DEF CloseMembership
<1>4. ASSUME Disable(x), Removes(x)
      PROVE  TypeInv'
  <2>1. call[x].person \in Persons /\ call[x].center \in Centers
    BY <1>0, <1>4 DEF Disable, Shaped, RemoveStages
  <2>2. call' \in [Calls -> Requests] /\ \A y \in Calls : Shaped(call'[y])
    BY <1>4, FinishShape DEF Removes
  <2>3. /\ account' \in [Persons -> {None, "active", "disabled"}]
        /\ member' \in [Persons -> [Centers -> {None, "live", "left"}]]
    BY <1>4, <2>1 DEF Removes, TypeInv, TypeOK
  <2>4. /\ offer' \in [Offers -> OfferRows]
        /\ \A o \in Offers : offer'[o].status \in {"pending", "accepted"} => offer'[o] = offer[o]
    <3>1. "cancelled" \in OfferStatus
      BY DEF OfferStatus
    <3> QED
      BY <1>4, <3>1, RowTypes DEF Removes, TypeInv, TypeOK, OfferRows
  <2>5. /\ stint' \in [Stints -> StintRows]
        /\ \A s \in Stints : stint'[s] \in {stint[s], NoStint}
    BY <1>4, RowTypes DEF Removes, TypeInv, TypeOK
  <2> QED
    BY <1>4, <2>2, <2>3, <2>4, <2>5 DEF Removes, TypeInv, TypeOK, Rows, Unanswered, Open, Active
<1> QED
  BY <1>1, <1>2, <1>2a, <1>3, <1>4, RejectKeeps DEF Disable

\* Persons written to a class are persons.
LEMMA RacedTypes ==
  ASSUME TypeInv, NEW p \in Persons, NEW c, NEW missed, Raced(p, c, missed)
  PROVE  raced' \subseteq Persons
BY DEF Raced, TypeInv, TypeOK

LEMMA ProposingTypes == TypeInv /\ Proposing => TypeInv'
<1> SUFFICES ASSUME TypeInv, NEW x \in Calls,
                    \/ \E k \in Classes, p \in Persons, role \in Roles : Send(x, k, p, role)
                    \/ \E o \in Offers :
                         \/ SendInserts(x, o) \/ Confirm(x, o)
                         \/ \E to \in {"accepted", "declined", "cancelled"} : Answer(x, o, to)
                    \/ Transition(x) \/ ConfirmTransition(x)
             PROVE  TypeInv'
  BY DEF Proposing
<1>0. call[x] \in Requests /\ Shaped(call[x])
  BY DEF TypeInv, TypeOK
<1>1. ASSUME NEW k \in Classes, NEW p \in Persons, NEW role \in Roles, Send(x, k, p, role)
      PROVE  TypeInv'
  <2> DEFINE r == [Idle EXCEPT !.at = "proposed", !.op = "send", !.center = CenterOf[k],
                               !.class = k, !.person = p, !.role = role]
  <2>1. r \in Requests
    BY StaffingConstants DEF None, Idle, Requests, Stages, OfferStatus
  <2>2. Shaped(r)
    BY DEF None, Idle, Shaped, JoinStages, RemoveStages, AppointStages
  <2> QED
    BY <1>1, <2>1, <2>2, Moved DEF Send
<1>2. ASSUME NEW o \in Offers, SendInserts(x, o), ~Reject(x)
      PROVE  TypeInv'
  <2> DEFINE new == [class |-> call[x].class, person |-> call[x].person, role |-> call[x].role,
                     status |-> "pending"]
  <2>1. call[x].class \in Classes /\ call[x].person \in Persons /\ call[x].role \in Roles
    BY <1>0, <1>2 DEF SendInserts, Shaped
  <2>2. call' \in [Calls -> Requests] /\ \A y \in Calls : Shaped(call'[y])
    BY <1>2, FinishShape DEF SendInserts
  <2>3. new \in OfferRows
    BY <2>1 DEF OfferRows, OfferStatus
  <2>4. offer' \in [Offers -> OfferRows] /\ \A u \in Offers : offer'[u] \in {offer[u], new}
    BY <1>2, <2>3 DEF SendInserts, TypeInv, TypeOK
  <2>5. raced' \subseteq Persons
    BY <1>2, <2>1, RacedTypes DEF SendInserts
  <2> QED
    BY <1>2, <2>1, <2>2, <2>4, <2>5
       DEF SendInserts, center, TypeInv, TypeOK, Rows, Unanswered, Open, Active
<1>3. ASSUME NEW o \in Offers, NEW to \in {"accepted", "declined", "cancelled"}, Answer(x, o, to)
      PROVE  TypeInv'
  <2> DEFINE r == [Idle EXCEPT !.at = "answering", !.op = "answer", !.row = o, !.seen = to]
  <2>1. r \in Requests
    BY StaffingConstants DEF None, Idle, Requests, Stages, OfferStatus
  <2>2. Shaped(r)
    BY DEF None, Idle, Shaped, JoinStages, RemoveStages, AppointStages
  <2> QED
    BY <1>3, <2>1, <2>2, Moved DEF Answer
<1>4. ASSUME Transition(x), ~Reject(x)
      PROVE  TypeInv'
  <2> DEFINE u == call[x].row
  <2> DEFINE to == call[x].seen
  <2>1. u \in Offers /\ to \in {"accepted", "declined", "cancelled"} /\ Open(u)
    BY <1>0, <1>4 DEF Transition, Shaped, Changeable, From, Open
  <2>2. call' \in [Calls -> Requests] /\ \A y \in Calls : Shaped(call'[y])
    BY <1>4, FinishShape DEF Transition
  <2>3. to \in OfferStatus
    BY <2>1 DEF OfferStatus
  <2>4. offer' = [offer EXCEPT ![u].status = to]
    BY <1>4 DEF Transition
  <2>5. /\ offer' \in [Offers -> OfferRows]
        /\ \A o \in Offers : offer'[o].class = offer[o].class /\ offer'[o].person = offer[o].person
                             /\ offer'[o].role = offer[o].role
        /\ \A o \in Offers : o # u => offer'[o] = offer[o]
    BY <2>1, <2>3, <2>4, RowTypes DEF TypeInv, TypeOK, OfferRows
  <2> QED
    BY <1>4, <2>1, <2>2, <2>5
       DEF Transition, center, TypeInv, TypeOK, Rows, Unanswered, Open, Active
<1>5. ASSUME NEW o \in Offers, Confirm(x, o)
      PROVE  TypeInv'
  <2> DEFINE k == offer[o].class
  <2> DEFINE r == [Idle EXCEPT !.at = "confirming", !.op = "confirm", !.row = o, !.center = CenterOf[k],
                               !.class = k, !.person = offer[o].person, !.role = offer[o].role]
  <2>0. k \in Classes /\ offer[o].person \in Persons /\ offer[o].role \in Roles
    BY <1>5 DEF Confirm, TypeInv, Rows
  <2>1. r \in Requests
    BY <2>0, StaffingConstants DEF None, Idle, Requests, Stages, OfferStatus
  <2>2. Shaped(r)
    BY <2>0 DEF None, Idle, Shaped, JoinStages, RemoveStages, AppointStages
  <2> QED
    BY <1>5, <2>1, <2>2, Moved DEF Confirm
<1>6. ASSUME ConfirmTransition(x), ~Reject(x)
      PROVE  TypeInv'
  <2> DEFINE r == [call[x] EXCEPT !.at = "appointing", !.offers = {call[x].row}]
  <2>1. call[x].row \in Offers
    BY <1>0, <1>6 DEF ConfirmTransition, Shaped
  <2>2. r \in Requests
    BY <1>0, <2>1 DEF Requests, Stages
  <2>3. Shaped(r)
    BY <1>0, <1>6 DEF ConfirmTransition, Requests, Shaped, JoinStages, RemoveStages, AppointStages
  <2>4. call' = [call EXCEPT ![x] = r]
    BY <1>6 DEF ConfirmTransition
  <2> QED
    BY <1>6, <2>2, <2>3, <2>4, Moved DEF ConfirmTransition
<1> QED
  BY <1>1, <1>2, <1>3, <1>4, <1>5, <1>6, RejectKeeps

\* A new stint: the rows of the others are what they were, or cleared.
LEMMA StintTypes ==
  ASSUME TypeInv, NEW k \in Classes, NEW p \in Persons, NEW role \in Roles, NEW s \in Stints,
         NEW base \in [Stints -> StintRows],
         \A t \in Stints : base[t] \in {stint[t], NoStint},
         stint' = [base EXCEPT ![s] = [class |-> k, person |-> p, role |-> role]]
  PROVE  /\ stint' \in [Stints -> StintRows]
         /\ \A t \in Stints : stint'[t] # NoStint =>
              stint'[t].class \in Classes /\ stint'[t].person \in Persons /\ stint'[t].role \in Roles
<1>1. [class |-> k, person |-> p, role |-> role] \in StintRows
  BY DEF StintRows
<1> QED
  BY <1>1 DEF TypeInv, Rows, Active

LEMMA AssignedTypes ==
  ASSUME TypeInv, NEW x \in Calls, offer' = Assigned(x)
  PROVE  /\ offer' \in [Offers -> OfferRows]
         /\ \A o \in Offers : offer'[o].status \in {"pending", "accepted"} => offer'[o] = offer[o]
<1>1. "assigned" \in OfferStatus
  BY DEF OfferStatus
<1> QED
  BY <1>1, RowTypes DEF Assigned, TypeInv, TypeOK, OfferRows

LEMMA CommitsTypes ==
  ASSUME TypeInv, NEW x \in Calls, call[x].at \in {"closed", "skipped"}, Commits(x)
  PROVE  /\ teacher' \in [Classes -> Persons] /\ overtaken' \subseteq Classes
         /\ offer' \in [Offers -> OfferRows]
         /\ \A o \in Offers : offer'[o].status \in {"pending", "accepted"} => offer'[o] = offer[o]
         /\ call' \in [Calls -> Requests] /\ \A y \in Calls : Shaped(call'[y])
<1>1. call[x].class \in Classes /\ call[x].person \in Persons
  BY DEF TypeInv, Shaped, AppointStages
<1>2. teacher' \in [Classes -> Persons] /\ overtaken' \subseteq Classes
  BY <1>1 DEF Commits, TypeInv, TypeOK
<1> QED
  BY <1>2, AssignedTypes, FinishShape DEF Commits

LEMMA AppointingTypes == TypeInv /\ Appointing => TypeInv'
<1> SUFFICES ASSUME TypeInv, Appointing
             PROVE  TypeInv'
  OBVIOUS
<1>1. ASSUME NEW x \in Calls, NEW k \in Classes, NEW p \in Persons, Assign(x, k, p)
      PROVE  TypeInv'
  <2> DEFINE r == [Idle EXCEPT !.at = "assigning", !.op = "assign", !.center = CenterOf[k],
                               !.class = k, !.person = p, !.role = "tro_giang"]
  <2>1. r \in Requests
    BY StaffingConstants DEF None, Idle, Requests, Stages, OfferStatus, Roles
  <2>2. Shaped(r)
    BY DEF None, Idle, Shaped, JoinStages, RemoveStages, AppointStages, Roles
  <2> QED
    BY <1>1, <2>1, <2>2, Moved DEF Assign
<1>2. ASSUME NEW x \in Calls, NEW k \in Classes, NEW p \in Persons, Reassign(x, k, p)
      PROVE  TypeInv'
  <2> DEFINE r == [Idle EXCEPT !.at = "judging", !.op = "handoff", !.center = CenterOf[k],
                               !.class = k, !.person = p, !.role = "giao_vien", !.seen = teacher[k]]
  <2>1. r \in Requests
    BY StaffingConstants, ZenonT(60) DEF None, Idle, Requests, Stages, OfferStatus, Roles, TypeInv, TypeOK
  <2>2. Shaped(r)
    BY DEF None, Idle, Shaped, JoinStages, RemoveStages, AppointStages, Roles
  <2> QED
    BY <1>2, <2>1, <2>2, Moved DEF Reassign
<1>3. ASSUME NEW x \in Calls, ConfirmAssigns(x)
      PROVE  TypeInv'
  <2>0. call[x] \in Requests /\ Shaped(call[x])
    BY DEF TypeInv, TypeOK
  <2> DEFINE r == [call[x] EXCEPT !.at = "assigning"]
  <2>1. "assigning" \in Stages
    BY DEF Stages
  <2>2. CASE Step(x, "assigning")
    <3>1. r \in Requests /\ call' = [call EXCEPT ![x] = r]
      BY <2>1, <2>2, StepMoves
    <3>2. Shaped(r)
      BY <1>3, <2>0 DEF ConfirmAssigns, Requests, Shaped, JoinStages, RemoveStages, AppointStages
    <3> QED
      BY <1>3, <3>1, <3>2, Moved DEF ConfirmAssigns
  <2>3. CASE Finish(x)
    BY <1>3, <2>3, FinishShape, RowsKept DEF ConfirmAssigns
  <2> QED
    BY <1>3, <2>2, <2>3 DEF ConfirmAssigns
<1>4. ASSUME NEW x \in Calls, ConfirmReassigns(x)
      PROVE  TypeInv'
  <2>0. call[x] \in Requests /\ Shaped(call[x])
    BY DEF TypeInv, TypeOK
  <2> DEFINE r == [call[x] EXCEPT !.at = "judging", !.seen = teacher[call[x].class]]
  <2>1. r \in Requests
    BY <1>4, <2>0 DEF ConfirmReassigns, Requests, Stages, Shaped, AppointStages, TypeInv, TypeOK
  <2>2. Shaped(r)
    BY <1>4, <2>0 DEF ConfirmReassigns, Requests, Shaped, JoinStages, RemoveStages, AppointStages
  <2>3. call' = [call EXCEPT ![x] = r] \/ Finish(x)
    BY <1>4, <2>0 DEF ConfirmReassigns, Finish, TypeInv, TypeOK
  <2>4. UNCHANGED <<center, teacher, offer, stint, raced, overtaken>>
    BY <1>4 DEF ConfirmReassigns
  <2> QED
    BY <2>1, <2>2, <2>3, <2>4, Moved, FinishShape, RowsKept
<1>5. ASSUME NEW x \in Calls, TryLockCenter(x)
      PROVE  TypeInv'
  <2>0. call[x] \in Requests /\ Shaped(call[x])
    BY DEF TypeInv, TypeOK
  <2> DEFINE r == [call[x] EXCEPT !.at = "syncing"]
  <2>1. "syncing" \in Stages
    BY DEF Stages
  <2>2. CASE Step(x, "syncing")
    <3>1. r \in Requests /\ call' = [call EXCEPT ![x] = r]
      BY <2>1, <2>2, StepMoves
    <3>2. Shaped(r)
      BY <1>5, <2>0 DEF TryLockCenter, Requests, Shaped, JoinStages, RemoveStages, AppointStages
    <3> QED
      BY <1>5, <3>1, <3>2, Moved DEF TryLockCenter
  <2>3. CASE Finish(x)
    BY <1>5, <2>3, FinishShape, RowsKept DEF TryLockCenter
  <2> QED
    BY <1>5, <2>2, <2>3 DEF TryLockCenter
<1>6. ASSUME NEW x \in Calls, SyncCloses(x)
      PROVE  TypeInv'
  <2>0. call[x] \in Requests /\ Shaped(call[x])
    BY DEF TypeInv, TypeOK
  <2> DEFINE a == [call[x] EXCEPT !.at = "closed", !.stints = Contradicting(Synced(x), call[x].class)]
  <2> DEFINE b == [call[x] EXCEPT !.at = "skipped"]
  <2>1. a \in Requests /\ b \in Requests
    <3>1. Contradicting(Synced(x), call[x].class) \in SUBSET Stints
      BY DEF Contradicting, Active
    <3>2. \A S \in SUBSET Stints : [call[x] EXCEPT !.at = "closed", !.stints = S] \in Requests
      BY <2>0 DEF Requests, Stages
    <3>3. b \in Requests
      BY <2>0 DEF Requests, Stages
    <3> QED
      BY <3>1, <3>2, <3>3
  <2>2. Shaped(a) /\ Shaped(b)
    BY <1>6, <2>0 DEF SyncCloses, Requests, Shaped, JoinStages, RemoveStages, AppointStages
  <2>3. call' = [call EXCEPT ![x] = a] \/ call' = [call EXCEPT ![x] = b]
    BY <1>6, <2>0 DEF SyncCloses, TypeInv, TypeOK
  <2>4. UNCHANGED <<center, teacher, offer, stint, raced, overtaken>>
    BY <1>6 DEF SyncCloses
  <2> QED
    BY <2>1, <2>2, <2>3, <2>4, Moved
<1>7. ASSUME NEW x \in Calls, NEW s \in Stints, AssignInserts(x, s), ~Reject(x)
      PROVE  TypeInv'
  <2>1. call[x].class \in Classes /\ call[x].person \in Persons /\ call[x].role \in Roles
    BY <1>7 DEF AssignInserts, TypeInv, Shaped, AppointStages
  <2>2. call' \in [Calls -> Requests] /\ \A y \in Calls : Shaped(call'[y])
    BY <1>7, FinishShape DEF AssignInserts
  <2>3. stint \in [Stints -> StintRows] /\ \A t \in Stints : stint[t] \in {stint[t], NoStint}
    BY DEF TypeInv, TypeOK
  <2>4. /\ stint' \in [Stints -> StintRows]
        /\ \A t \in Stints : stint'[t] # NoStint =>
             stint'[t].class \in Classes /\ stint'[t].person \in Persons /\ stint'[t].role \in Roles
    BY <1>7, <2>1, <2>3, StintTypes DEF AssignInserts
  <2>5. /\ offer' \in [Offers -> OfferRows]
        /\ \A o \in Offers : offer'[o].status \in {"pending", "accepted"} => offer'[o] = offer[o]
    BY <1>7, AssignedTypes DEF AssignInserts
  <2>6. raced' \subseteq Persons
    BY <1>7, <2>1, RacedTypes DEF AssignInserts
  <2>7. UNCHANGED <<center, teacher, overtaken>>
    BY <1>7 DEF AssignInserts
  <2> QED
    BY <2>2, <2>4, <2>5, <2>6, <2>7 DEF center, TypeInv, TypeOK, Rows, Unanswered, Open, Active
<1>8. ASSUME NEW x \in Calls, NEW s \in Stints, SyncInserts(x, s), ~Reject(x)
      PROVE  TypeInv'
  <2> DEFINE closed == [t \in Stints |-> IF t \in call[x].stints THEN NoStint ELSE stint[t]]
  <2>1. call[x].class \in Classes /\ call[x].person \in Persons /\ call[x].at \in {"closed", "skipped"}
    BY <1>8 DEF SyncInserts, TypeInv, Shaped, AppointStages
  <2>2. Commits(x)
    BY <1>8 DEF SyncInserts
  <2>3. closed \in [Stints -> StintRows] /\ \A t \in Stints : closed[t] \in {stint[t], NoStint}
    BY RowTypes DEF TypeInv, TypeOK
  <2>4. "giao_vien" \in Roles
    BY DEF Roles
  <2>5. \/ stint' = closed
        \/ stint' = [closed EXCEPT ![s] = [class |-> call[x].class, person |-> call[x].person,
                                           role |-> "giao_vien"]]
    BY <1>8 DEF SyncInserts, Synced
  <2>6. /\ stint' \in [Stints -> StintRows]
        /\ \A t \in Stints : stint'[t] # NoStint =>
             stint'[t].class \in Classes /\ stint'[t].person \in Persons /\ stint'[t].role \in Roles
    <3> HIDE DEF closed
    <3>1. CASE stint' = closed
      BY <2>3, <3>1 DEF TypeInv, Rows, Active
    <3> QED
      BY <2>1, <2>3, <2>4, <2>5, <3>1, StintTypes
  <2>7. raced' \subseteq Persons
    BY <1>8, <2>1, RacedTypes DEF SyncInserts, Synced, TypeInv, TypeOK
  <2>8. UNCHANGED center
    BY <2>2 DEF Commits
  <2> QED
    BY <2>1, <2>2, <2>6, <2>7, <2>8, CommitsTypes DEF center, TypeInv, TypeOK, Rows, Unanswered, Open, Active
<1>9. ASSUME NEW s \in Stints, Remove(s)
      PROVE  TypeInv'
  <2>1. stint' \in [Stints -> StintRows] /\ \A t \in Stints : stint'[t] \in {stint[t], NoStint}
    BY <1>9, RowTypes DEF Remove, TypeInv, TypeOK
  <2> QED
    BY <1>9, <2>1 DEF Remove, center, TypeInv, TypeOK, Rows, Unanswered, Open, Active
<1> QED
  BY <1>1, <1>2, <1>3, <1>4, <1>5, <1>6, <1>7, <1>8, <1>9, RejectKeeps DEF Appointing

LEMMA InitTypes == Init => TypeInv
<1> SUFFICES ASSUME Init PROVE TypeInv
  OBVIOUS
<1>1. account \in [Persons -> {None, "active", "disabled"}]
      /\ home \in [Persons -> Centers \cup {None}]
      /\ member \in [Persons -> [Centers -> {None, "live", "left"}]]
  BY StaffingConstants DEF Init
<1>2. invite \in [Invites -> InviteRows]
  BY RowTypes DEF Init
<1>3. teacher \in [Classes -> Persons] /\ raced \subseteq Persons /\ overtaken \subseteq Classes
  BY StaffingConstants DEF Init
<1>4. stint \in [Stints -> StintRows]
      /\ \A s \in Stints : stint[s] # NoStint =>
           stint[s].class \in Classes /\ stint[s].person \in Persons /\ stint[s].role \in Roles
  BY StaffingConstants, RowTypes DEF Init, StintRows, Roles
<1>5. call \in [Calls -> Requests] /\ \A x \in Calls : Shaped(call[x])
  BY IdleShaped DEF Init
<1>6. \A i \in Invites : ~Unanswered(i)
  BY DEF Init, Unanswered, NoInvite, None
<1>7. /\ offer \in [Offers -> OfferRows]
      /\ \A o \in Offers : Open(o) => offer[o].class \in Classes /\ offer[o].person \in Persons
                                      /\ offer[o].role \in Roles
  BY FirstOffersAreOpen DEF Init, Open, NoOffer, None
<1> QED
  BY <1>1, <1>2, <1>3, <1>4, <1>5, <1>6, <1>7 DEF TypeInv, TypeOK, Rows, Active

LEMMA TypesKept == TypeInv /\ [Next]_vars => TypeInv'
<1> SUFFICES ASSUME TypeInv, [Next]_vars PROVE TypeInv'
  OBVIOUS
<1>1. CASE UNCHANGED vars
  BY <1>1 DEF vars, center, TypeInv, TypeOK, Rows, Unanswered, Open, Active
<1> QED
  BY <1>1, InvitingTypes, JoiningTypes, RemovingTypes, ProposingTypes, AppointingTypes DEF Next

\* Every row names a person, center and class of the system or nothing, and every request
\* knows at each stage what the code of that stage reads of it.
THEOREM StaffingTypeCorrect == Spec => []TypeOK
<1>1. Spec => []TypeInv
  BY InitTypes, TypesKept, PTL DEF Spec
<1> QED
  BY <1>1, PTL DEF TypeInv

-----------------------------------------------------------------------------
(* One live place.                                                         *)

\* The invariant is inductive given the types: an account that is not active has no live
\* membership, so admitting its person makes the one there is.
LEMMA JoinsOnePlace ==
  ASSUME TypeInv, OneLivePlace, NEW x \in Calls, call[x].op = "join",
         account[call[x].person] # "active", Joins(x)
  PROVE  OneLivePlace'
<1>1. call[x].person \in Persons /\ call[x].center \in Centers
  BY DEF TypeInv, Shaped
<1> QED
  BY <1>1 DEF Joins, OneLivePlace, IsLive, TypeInv, TypeOK

LEMMA RemovesOnePlace ==
  ASSUME TypeInv, OneLivePlace, NEW x \in Calls, call[x].op = "remove",
         IsLive(call[x].person, call[x].center), Removes(x)
  PROVE  OneLivePlace'
<1>1. call[x].person \in Persons /\ call[x].center \in Centers
  BY DEF TypeInv, Shaped
<1> QED
  BY <1>1 DEF Removes, OneLivePlace, IsLive, TypeInv, TypeOK

LEMMA PlacesKept == TypeInv /\ OneLivePlace /\ [Next]_vars => OneLivePlace'
<1> SUFFICES ASSUME TypeInv, OneLivePlace, [Next]_vars PROVE OneLivePlace'
  OBVIOUS
<1>1. CASE UNCHANGED <<account, home, member>>
  BY <1>1 DEF OneLivePlace, IsLive
<1>2. ASSUME NEW x \in Calls, CreateInCenter(x) \/ Reactivate(x)
      PROVE  OneLivePlace'
  <2>1. CASE Reject(x)
    BY <1>1, <2>1 DEF Reject, center
  <2>2. CASE Joins(x) /\ account[call[x].person] # "active"
    <3>1. call[x].op = "join"
      BY <1>2 DEF CreateInCenter, Reactivate, TypeInv, Shaped, JoinStages
    <3> QED
      BY <2>2, <3>1, JoinsOnePlace
  <2> QED
    BY <1>2, <2>1, <2>2 DEF CreateInCenter, Reactivate, None
<1>3. ASSUME NEW x \in Calls, Disable(x)
      PROVE  OneLivePlace'
  <2>1. CASE Reject(x)
    BY <1>1, <2>1 DEF Reject, center
  <2>2. call[x].op = "remove"
    BY <1>3 DEF Disable, TypeInv, Shaped, RemoveStages
  <2> QED
    BY <1>3, <2>1, <2>2, RemovesOnePlace DEF Disable
<1>4. CASE Inviting
  BY <1>1, <1>4 DEF Inviting, Expire, Revoke, Create, Accept, center
<1>5. ASSUME NEW x \in Calls, FindByPhone(x)
      PROVE  OneLivePlace'
  BY <1>1, <1>5 DEF FindByPhone, center
<1>6. ASSUME Removing, \A x \in Calls : ~Disable(x)
      PROVE  OneLivePlace'
  BY <1>1, <1>6 DEF Removing, RemoveMember, CancelOpenForMember, CancelsOpen, CloseMembership, center
<1>7. CASE Proposing
  BY <1>1, <1>7, ZenonT(60) DEF Proposing, Send, SendInserts, Confirm, Answer, Transition, ConfirmTransition, Reject, center
<1>8. CASE Appointing
  <2>1. ASSUME NEW x \in Calls, NEW s \in Stints, AssignInserts(x, s) \/ SyncInserts(x, s) \/ Remove(s)
        PROVE  UNCHANGED center
    BY <2>1 DEF AssignInserts, SyncInserts, Remove, Commits, Reject, center
  <2>2. ASSUME NEW x \in Calls, NEW k \in Classes, NEW p \in Persons, Assign(x, k, p) \/ Reassign(x, k, p)
        PROVE  UNCHANGED center
    BY <2>2 DEF Assign, Reassign, center
  <2>3. ASSUME NEW x \in Calls, ConfirmAssigns(x) \/ ConfirmReassigns(x) \/ TryLockCenter(x) \/ SyncCloses(x)
        PROVE  UNCHANGED center
    BY <2>3 DEF ConfirmAssigns, ConfirmReassigns, TryLockCenter, SyncCloses, center
  <2>4. ASSUME NEW s \in Stints, Remove(s)
        PROVE  UNCHANGED center
    BY <2>4 DEF Remove, center
  <2> QED
    BY <1>1, <1>8, <2>1, <2>2, <2>3, <2>4 DEF Appointing, center
<1>9. CASE UNCHANGED vars
  BY <1>1, <1>9 DEF vars, center
<1> QED
  BY <1>2, <1>3, <1>4, <1>5, <1>6, <1>7, <1>8, <1>9 DEF Next, Joining

\* Admissions and removals of any number of persons by any number of centers leave an
\* account active exactly while its person is a live member of the one center it names.
THEOREM OnePlaceAlways == Spec => []OneLivePlace
<1>1. Init => OneLivePlace
  <2>1. Init => \A p \in Persons, c \in Centers : member[p][c] = "live" <=> account[p] = "active" /\ home[p] = c
    BY StaffingConstants DEF Init, None
  <2> QED
    BY <2>1 DEF OneLivePlace, IsLive
<1> QED
  BY <1>1, InitTypes, TypesKept, PlacesKept, PTL DEF Spec

-----------------------------------------------------------------------------
(* Final verdicts.                                                         *)

\* The invitations to a class a request has locked; an UPDATE that waits has none yet.
Held(r) == {o \in r.offers : r.at # "cancelling"}

\* The invitation an admission has locked is unanswered and its alone, and so are the
\* invitations to a class that a transaction has locked.
Judged ==
  /\ \A x \in Calls : call[x].op = "join" => Unanswered(call[x].row)
  /\ \A x, y \in Calls : call[x].op = "join" /\ call[y].op = "join" /\ call[x].row = call[y].row => x = y
  /\ \A x \in Calls, o \in Offers : o \in Held(call[x]) => Open(o)
  /\ \A x, y \in Calls, o \in Offers : o \in Held(call[x]) /\ o \in Held(call[y]) => x = y

\* What VerdictsAreFinal says of a step.
VerdictKept ==
  /\ \A i \in Invites : invite[i].status \in {"accepted", "revoked"} => invite'[i] = invite[i]
  /\ \A o \in Offers : offer[o] # NoOffer /\ ~Open(o) => offer'[o] = offer[o]

LEMMA Untouched ==
  ASSUME UNCHANGED <<invite, offer>>
  PROVE  /\ VerdictKept
         /\ \A i \in Invites : Unanswered(i) <=> Unanswered(i)'
         /\ \A o \in Offers : Open(o) <=> Open(o)'
BY DEF VerdictKept, Unanswered, Open

\* A request that gets on locks nothing more.
LEMMA Advances ==
  ASSUME TypeInv, Judged, NEW x \in Calls, NEW r \in Requests, call' = [call EXCEPT ![x] = r],
         r.op = "join" => call[x].op = "join" /\ r.row = call[x].row,
         Held(r) \subseteq Held(call[x]),
         UNCHANGED <<invite, offer>>
  PROVE  Judged'
<1>1. call'[x] = r /\ \A y \in Calls : y # x => call'[y] = call[y]
  BY CallStep DEF TypeInv
<1> QED
  BY <1>1 DEF Judged, Unanswered, Open

\* A request that ends leaves what the others have locked as it is.
LEMMA Ends ==
  ASSUME TypeInv, Judged, NEW x \in Calls, Finish(x),
         \A y \in Calls \ {x} : call[y].op = "join" => invite'[call[y].row].status \in {"pending", "lapsed"},
         \A y \in Calls \ {x}, o \in Offers : o \in Held(call[y]) => Open(o)'
  PROVE  Judged'
<1>1. call'[x] = Done /\ \A y \in Calls : y # x => call'[y] = call[y]
  BY CallStep, IdleShaped DEF TypeInv, Finish
<1>2. Done.op # "join" /\ Held(Done) = {}
  BY DEF Held, Done, Idle, None
<1>3. ASSUME NEW y \in Calls, call'[y].op = "join"
      PROVE  /\ y # x /\ call[y].op = "join" /\ call'[y].row = call[y].row
             /\ invite'[call[y].row].status \in {"pending", "lapsed"}
  BY <1>1, <1>2, <1>3
<1>4. ASSUME NEW y \in Calls, NEW o \in Offers, o \in Held(call'[y])
      PROVE  y # x /\ o \in Held(call[y]) /\ Open(o)'
  BY <1>1, <1>2, <1>4
<1>5. \A y \in Calls : call'[y].op = "join" => invite'[call'[y].row].status \in {"pending", "lapsed"}
  BY <1>3 DEF Unanswered
<1> QED
  BY <1>3, <1>4, <1>5 DEF Judged, Unanswered

LEMMA Rejected ==
  ASSUME TypeInv, Judged, NEW x \in Calls, Finish(x), UNCHANGED <<invite, offer>>
  PROVE  Judged' /\ VerdictKept
<1>1. \A y \in Calls \ {x} : call[y].op = "join" => invite'[call[y].row].status \in {"pending", "lapsed"}
  BY DEF Judged, Unanswered
<1>2. \A y \in Calls \ {x}, o \in Offers : o \in Held(call[y]) => Open(o)'
  BY DEF Judged, Open
<1> QED
  BY <1>1, <1>2, Ends, Untouched

\* A request that has locked nothing yet and is no admission begins, or gets on.
LEMMA Begun ==
  ASSUME TypeInv, Judged, NEW x \in Calls, NEW r \in Requests, call' = [call EXCEPT ![x] = r],
         r.op # "join", Held(r) = {}, UNCHANGED <<invite, offer>>
  PROVE  Judged' /\ VerdictKept
BY Advances, Untouched

LEMMA InvitingJudged == TypeInv /\ Judged /\ Inviting => Judged' /\ VerdictKept
<1> SUFFICES ASSUME TypeInv, Judged, NEW i \in Invites,
                    \/ Expire(i) \/ Revoke(i)
                    \/ \E c \in Centers, p \in Guests : Create(c, p, i)
                    \/ \E x \in Calls : Accept(x, i)
             PROVE  Judged' /\ VerdictKept
  BY DEF Inviting
<1>0. invite \in [Invites -> InviteRows] /\ \A x \in Calls : call[x].op = "join" => call[x].row \in Invites
  BY DEF TypeInv, TypeOK, Shaped
<1>1. CASE Expire(i)
  <2>1. /\ \A j \in Invites : Unanswered(j) => Unanswered(j)'
        /\ \A j \in Invites : ~Unanswered(j) => invite'[j] = invite[j]
    BY <1>0, <1>1 DEF Expire, InviteRows, Unanswered
  <2> QED
    BY <1>0, <1>1, <2>1 DEF Expire, Judged, VerdictKept, Unanswered, Open
<1>2. CASE Revoke(i)
  <2>1. \A j \in Invites : j # i => invite'[j] = invite[j]
    BY <1>0, <1>2 DEF Revoke
  <2>2. \A x \in Calls : call[x].op = "join" => call[x].row # i
    BY <1>2 DEF Revoke, InviteLocked
  <2> QED
    BY <1>0, <1>2, <2>1, <2>2 DEF Revoke, Judged, VerdictKept, Unanswered, Open
<1>3. ASSUME NEW c \in Centers, NEW p \in Guests, Create(c, p, i)
      PROVE  Judged' /\ VerdictKept
  <2>1. \A j \in Invites : (\E x \in Calls : call[x].op = "join" /\ call[x].row = j) => invite'[j] = invite[j]
    BY <1>0, <1>3 DEF Create, Judged, Unanswered, InviteLocked, NoInvite, None
  <2>2. \A j \in Invites : invite[j].status \in {"accepted", "revoked"} => invite'[j] = invite[j]
    BY <1>0, <1>3 DEF Create, Unanswered, NoInvite, None
  <2> QED
    BY <1>0, <1>3, <2>1, <2>2 DEF Create, Judged, VerdictKept, Unanswered, Open
<1>4. ASSUME NEW x \in Calls, Accept(x, i)
      PROVE  Judged' /\ VerdictKept
  <2> DEFINE r == [Idle EXCEPT !.at = "invited", !.op = "join", !.row = i,
                               !.person = invite[i].person, !.center = invite[i].center]
  <2>1. r.op = "join" /\ r.row = i /\ Held(r) = {}
    BY DEF Held, Idle
  <2>2. call'[x] = r /\ \A y \in Calls : y # x => call'[y] = call[y]
    BY <1>4 DEF Accept, TypeInv, TypeOK
  <2>3. Unanswered(i) /\ \A y \in Calls : call[y].op = "join" => call[y].row # i
    BY <1>4 DEF Accept, Unanswered, InviteLocked
  <2>4. UNCHANGED <<invite, offer>>
    BY <1>4 DEF Accept, center
  <2> HIDE DEF r
  <2> QED
    BY <2>1, <2>2, <2>3, <2>4, Untouched DEF Judged, Unanswered, Open
<1> QED
  BY <1>1, <1>2, <1>3, <1>4

LEMMA JoiningJudged == TypeInv /\ Judged /\ Joining => Judged' /\ VerdictKept
<1> SUFFICES ASSUME TypeInv, Judged, NEW x \in Calls, FindByPhone(x) \/ CreateInCenter(x) \/ Reactivate(x)
             PROVE  Judged' /\ VerdictKept
  BY DEF Joining
<1>1. ASSUME FindByPhone(x), NEW at \in {"creating", "reactivating"}, Step(x, at)
      PROVE  Judged' /\ VerdictKept
  <2> DEFINE r == [call[x] EXCEPT !.at = at]
  <2>1. at \in Stages
    BY DEF Stages
  <2>2. r \in Requests /\ call' = [call EXCEPT ![x] = r]
    BY <1>1, <2>1, StepMoves
  <2>3. r.op = call[x].op /\ r.row = call[x].row /\ Held(r) \subseteq Held(call[x])
    BY <1>1 DEF FindByPhone, Held, TypeInv, TypeOK, Requests
  <2>4. UNCHANGED <<invite, offer>>
    BY <1>1 DEF FindByPhone, center
  <2> HIDE DEF r
  <2> QED
    BY <2>2, <2>3, <2>4, Advances, Untouched
<1>2. ASSUME Joins(x), call[x].op = "join"
      PROVE  Judged' /\ VerdictKept
  <2> DEFINE i == call[x].row
  <2>1. i \in Invites /\ Unanswered(i)
    BY <1>2 DEF Judged, TypeInv, Shaped
  <2>2. \A j \in Invites : j # i => invite'[j] = invite[j]
    BY <1>2, <2>1 DEF Joins, TypeInv, TypeOK
  <2>3. \A y \in Calls \ {x} : call[y].op = "join" => call[y].row \in Invites /\ call[y].row # i
    BY <1>2 DEF Judged, TypeInv, Shaped
  <2>4. Finish(x) /\ offer' = offer
    BY <1>2 DEF Joins
  <2>5. \A y \in Calls \ {x} : call[y].op = "join" => invite'[call[y].row].status \in {"pending", "lapsed"}
    BY <2>2, <2>3 DEF Judged, Unanswered
  <2>6. \A y \in Calls \ {x}, o \in Offers : o \in Held(call[y]) => Open(o)'
    BY <2>4 DEF Judged, Open
  <2>7. Judged'
    BY <2>4, <2>5, <2>6, Ends
  <2> QED
    BY <2>1, <2>2, <2>4, <2>7 DEF VerdictKept, Unanswered
<1>3. CASE Reject(x)
  BY <1>3, Rejected DEF Reject, center
<1>4. CASE FindByPhone(x) /\ Finish(x)
  BY <1>4, Rejected DEF FindByPhone, center
<1>5. call[x].at \in {"creating", "reactivating"} => call[x].op = "join"
  BY DEF TypeInv, Shaped, JoinStages
<1>6. CASE FindByPhone(x)
  <2>1. Finish(x) \/ \E at \in {"creating", "reactivating"} : Step(x, at)
    BY <1>6 DEF FindByPhone
  <2> QED
    BY <1>1, <1>4, <1>6, <2>1
<1> QED
  BY <1>2, <1>3, <1>5, <1>6 DEF CreateInCenter, Reactivate

LEMMA RemovingJudged == TypeInv /\ Judged /\ Removing => Judged' /\ VerdictKept
<1> SUFFICES ASSUME TypeInv, Judged, NEW x \in Calls,
                    \/ \E c \in Centers, p \in Persons : RemoveMember(x, c, p)
                    \/ CancelOpenForMember(x) \/ CancelsOpen(x) \/ CloseMembership(x) \/ Disable(x)
             PROVE  Judged' /\ VerdictKept
  BY DEF Removing
<1>0. call[x] \in Requests
  BY DEF TypeInv, TypeOK
<1>1. ASSUME NEW c \in Centers, NEW p \in Persons, RemoveMember(x, c, p)
      PROVE  Judged' /\ VerdictKept
  <2> DEFINE r == [Idle EXCEPT !.at = "judged", !.op = "remove", !.center = c, !.person = p]
  <2>1. r \in Requests
    BY StaffingConstants DEF None, Idle, Requests, Stages, OfferStatus
  <2>2. r.op # "join" /\ Held(r) = {}
    BY DEF Held, Idle
  <2> QED
    BY <1>1, <2>1, <2>2, Begun DEF RemoveMember, center
<1>2. CASE CancelOpenForMember(x)
  <2> DEFINE r == [call[x] EXCEPT !.at = "cancelling",
                                  !.offers = OffersIn(call[x].person, call[x].center)]
  <2>1. r \in Requests
    BY <1>0 DEF Requests, Stages, OffersIn
  <2>2. r.op # "join" /\ Held(r) = {}
    BY <1>0, <1>2 DEF CancelOpenForMember, Held, Requests
  <2>3. call' = [call EXCEPT ![x] = r] /\ UNCHANGED <<invite, offer>>
    BY <1>2 DEF CancelOpenForMember, center
  <2> HIDE DEF r
  <2> QED
    BY <2>1, <2>2, <2>3, Begun
<1>2a. CASE CancelsOpen(x)
  <2> DEFINE mine == {o \in call[x].offers : Open(o)}
  <2>1. mine \subseteq Offers /\ \A o \in mine : Open(o) /\ \A y \in Calls : o \notin Held(call[y])
    BY <1>0, <1>2a DEF CancelsOpen, OfferLocked, Held, Requests
  <2>2. call'[x].op = call[x].op /\ Held(call'[x]) = mine /\ \A y \in Calls : y # x => call'[y] = call[y]
    BY <1>0, <1>2a DEF CancelsOpen, Held, TypeInv, TypeOK, Requests
  <2>3. call[x].op # "join" /\ UNCHANGED <<invite, offer>>
    BY <1>2a DEF CancelsOpen, center, TypeInv, Shaped, JoinStages
  <2> HIDE DEF mine
  <2>4. \A y \in Calls, o \in Offers : o \in Held(call'[y]) => Open(o)'
    BY <2>1, <2>2, <2>3, Untouched DEF Judged
  <2>5. \A y, z \in Calls, o \in Offers : o \in Held(call'[y]) /\ o \in Held(call'[z]) => y = z
    BY <2>1, <2>2 DEF Judged
  <2>6. \A y \in Calls : call'[y].op = "join" => y # x
    BY <2>2, <2>3
  <2> QED
    BY <2>2, <2>3, <2>4, <2>5, <2>6, Untouched DEF Judged, Unanswered
<1>3. CASE CloseMembership(x)
  <2> DEFINE r == [call[x] EXCEPT !.at = "closing",
                                  !.stints = StintsIn(call[x].person, call[x].center)]
  <2>1. r \in Requests
    BY <1>0 DEF Requests, Stages, StintsIn, Active
  <2>2. r.op = call[x].op /\ r.row = call[x].row /\ Held(r) \subseteq Held(call[x])
    BY <1>0, <1>3 DEF CloseMembership, Held, Requests
  <2>3. call' = [call EXCEPT ![x] = r] /\ UNCHANGED <<invite, offer>>
    BY <1>3 DEF CloseMembership, center
  <2> HIDE DEF r
  <2> QED
    BY <2>1, <2>2, <2>3, Advances, Untouched
<1>4. ASSUME Removes(x), call[x].op = "remove", call[x].at = "closing"
      PROVE  Judged' /\ VerdictKept
  <2>1. \A o \in Offers : o \notin Held(call[x]) => offer'[o] = offer[o]
    BY <1>4 DEF Removes, Held
  <2>2. Finish(x) /\ invite' = invite
    BY <1>4 DEF Removes
  <2>3. \A y \in Calls \ {x}, o \in Offers : o \in Held(call[y]) => Open(o)'
    BY <2>1 DEF Judged, Open
  <2>4. \A y \in Calls \ {x} : call[y].op = "join" => invite'[call[y].row].status \in {"pending", "lapsed"}
    BY <2>2 DEF Judged, Unanswered
  <2>5. Judged'
    BY <2>2, <2>3, <2>4, Ends
  <2> QED
    BY <2>1, <2>2, <2>5 DEF Judged, VerdictKept
<1>5. CASE Reject(x)
  BY <1>5, Rejected DEF Reject, center
<1>6. call[x].at = "closing" => call[x].op = "remove"
  BY DEF TypeInv, Shaped, RemoveStages
<1> QED
  BY <1>1, <1>2, <1>2a, <1>3, <1>4, <1>5, <1>6 DEF Disable

\* What a request writes to invitations to a class at its commit.
LEMMA AssignedJudged ==
  ASSUME TypeInv, Judged, NEW x \in Calls, call[x].at # "cancelling", Finish(x), offer' = Assigned(x),
         invite' = invite
  PROVE  Judged' /\ VerdictKept
<1>1. \A o \in Offers : o \notin Held(call[x]) => offer'[o] = offer[o]
  BY DEF Assigned, Held
<1>2. \A y \in Calls \ {x}, o \in Offers : o \in Held(call[y]) => Open(o)'
  BY <1>1 DEF Judged, Open
<1>3. \A y \in Calls \ {x} : call[y].op = "join" => invite'[call[y].row].status \in {"pending", "lapsed"}
  BY DEF Judged, Unanswered
<1>4. Judged'
  BY <1>2, <1>3, Ends
<1> QED
  BY <1>1, <1>4 DEF Judged, VerdictKept

LEMMA ProposingJudged == TypeInv /\ Judged /\ Proposing => Judged' /\ VerdictKept
<1> SUFFICES ASSUME TypeInv, Judged, NEW x \in Calls,
                    \/ \E k \in Classes, p \in Persons, role \in Roles : Send(x, k, p, role)
                    \/ \E o \in Offers :
                         \/ SendInserts(x, o) \/ Confirm(x, o)
                         \/ \E to \in {"accepted", "declined", "cancelled"} : Answer(x, o, to)
                    \/ Transition(x) \/ ConfirmTransition(x)
             PROVE  Judged' /\ VerdictKept
  BY DEF Proposing
<1>0. call[x] \in Requests /\ Shaped(call[x]) /\ offer \in [Offers -> OfferRows]
  BY DEF TypeInv, TypeOK
<1>1. ASSUME NEW k \in Classes, NEW p \in Persons, NEW role \in Roles, Send(x, k, p, role)
      PROVE  Judged' /\ VerdictKept
  <2> DEFINE r == [Idle EXCEPT !.at = "proposed", !.op = "send", !.center = CenterOf[k],
                               !.class = k, !.person = p, !.role = role]
  <2>1. r \in Requests
    BY StaffingConstants DEF None, Idle, Requests, Stages, OfferStatus
  <2>2. r.op # "join" /\ Held(r) = {}
    BY DEF Held, Idle
  <2> QED
    BY <1>1, <2>1, <2>2, Begun DEF Send, center
<1>2. ASSUME NEW u \in Offers, SendInserts(x, u), ~Reject(x)
      PROVE  Judged' /\ VerdictKept
  <2>1. offer[u] = NoOffer /\ \A o \in Offers : o # u => offer'[o] = offer[o]
    BY <1>0, <1>2 DEF SendInserts
  <2>2. Finish(x) /\ invite' = invite
    BY <1>2 DEF SendInserts, center
  <2>3. ~Open(u)
    BY <2>1 DEF Open, NoOffer, None
  <2>4. \A y \in Calls \ {x}, o \in Offers : o \in Held(call[y]) => Open(o)'
    BY <2>1, <2>3 DEF Judged, Open
  <2>5. \A y \in Calls \ {x} : call[y].op = "join" => invite'[call[y].row].status \in {"pending", "lapsed"}
    BY <2>2 DEF Judged, Unanswered
  <2>6. Judged'
    BY <2>2, <2>4, <2>5, Ends
  <2> QED
    BY <2>1, <2>2, <2>6 DEF VerdictKept
<1>3. ASSUME NEW o \in Offers, NEW to \in {"accepted", "declined", "cancelled"}, Answer(x, o, to)
      PROVE  Judged' /\ VerdictKept
  <2> DEFINE r == [Idle EXCEPT !.at = "answering", !.op = "answer", !.row = o, !.seen = to]
  <2>1. r \in Requests
    BY StaffingConstants DEF None, Idle, Requests, Stages, OfferStatus
  <2>2. r.op # "join" /\ Held(r) = {}
    BY DEF Held, Idle
  <2> QED
    BY <1>3, <2>1, <2>2, Begun DEF Answer, center
<1>4. ASSUME Transition(x), ~Reject(x)
      PROVE  Judged' /\ VerdictKept
  <2> DEFINE u == call[x].row
  <2>1. u \in Offers /\ Open(u) /\ \A y \in Calls : u \notin Held(call[y])
    BY <1>0, <1>4 DEF Transition, Shaped, Changeable, From, Open, OfferLocked, Held
  <2>2. \A o \in Offers : o # u => offer'[o] = offer[o]
    BY <1>0, <1>4 DEF Transition
  <2>3. Finish(x) /\ invite' = invite
    BY <1>4 DEF Transition, center
  <2>4. \A y \in Calls \ {x}, o \in Offers : o \in Held(call[y]) => Open(o)'
    BY <2>1, <2>2 DEF Judged, Open
  <2>5. \A y \in Calls \ {x} : call[y].op = "join" => invite'[call[y].row].status \in {"pending", "lapsed"}
    BY <2>3 DEF Judged, Unanswered
  <2>6. Judged'
    BY <2>3, <2>4, <2>5, Ends
  <2> QED
    BY <2>1, <2>2, <2>3, <2>6 DEF VerdictKept
<1>5. ASSUME NEW o \in Offers, Confirm(x, o)
      PROVE  Judged' /\ VerdictKept
  <2> DEFINE k == offer[o].class
  <2> DEFINE r == [Idle EXCEPT !.at = "confirming", !.op = "confirm", !.row = o, !.center = CenterOf[k],
                               !.class = k, !.person = offer[o].person, !.role = offer[o].role]
  <2>0. k \in Classes /\ offer[o].person \in Persons /\ offer[o].role \in Roles
    BY <1>5 DEF Confirm, TypeInv, Rows
  <2>1. r \in Requests
    BY <2>0, StaffingConstants DEF None, Idle, Requests, Stages, OfferStatus
  <2>2. r.op # "join" /\ Held(r) = {}
    BY DEF Held, Idle
  <2> QED
    BY <1>5, <2>1, <2>2, Begun DEF Confirm, center
<1>6. ASSUME ConfirmTransition(x), ~Reject(x)
      PROVE  Judged' /\ VerdictKept
  <2> DEFINE u == call[x].row
  <2>1. u \in Offers /\ Open(u) /\ \A y \in Calls : u \notin Held(call[y])
    BY <1>0, <1>6 DEF ConfirmTransition, Shaped, Changeable, From, Open, OfferLocked, Held
  <2>2. call'[x].op = call[x].op /\ Held(call'[x]) = {u} /\ \A y \in Calls : y # x => call'[y] = call[y]
    BY <1>0, <1>6 DEF ConfirmTransition, Held, TypeInv, TypeOK, Requests
  <2>3. UNCHANGED <<invite, offer>>
    BY <1>6 DEF ConfirmTransition, center
  <2>4. call[x].op # "join"
    BY <1>0, <1>6 DEF ConfirmTransition, Shaped, JoinStages
  <2> HIDE DEF u
  <2>5. \A y \in Calls, o \in Offers : o \in Held(call'[y]) => Open(o)'
    BY <2>1, <2>2, <2>3, Untouched DEF Judged
  <2>6. \A y, z \in Calls, o \in Offers : o \in Held(call'[y]) /\ o \in Held(call'[z]) => y = z
    BY <2>1, <2>2 DEF Judged
  <2>7. \A y \in Calls : call'[y].op = "join" => y # x
    BY <2>2, <2>4
  <2> QED
    BY <2>2, <2>3, <2>5, <2>6, <2>7, Untouched DEF Judged, Unanswered
<1>7. CASE Reject(x)
  BY <1>7, Rejected DEF Reject, center
<1> QED
  BY <1>1, <1>2, <1>3, <1>4, <1>5, <1>6, <1>7

LEMMA AppointingJudged == TypeInv /\ Judged /\ Appointing => Judged' /\ VerdictKept
<1> SUFFICES ASSUME TypeInv, Judged, Appointing
             PROVE  Judged' /\ VerdictKept
  OBVIOUS
<1>1. ASSUME NEW x \in Calls, NEW k \in Classes, NEW p \in Persons, Assign(x, k, p)
      PROVE  Judged' /\ VerdictKept
  <2> DEFINE r == [Idle EXCEPT !.at = "assigning", !.op = "assign", !.center = CenterOf[k],
                               !.class = k, !.person = p, !.role = "tro_giang"]
  <2>1. r \in Requests
    BY StaffingConstants DEF None, Idle, Requests, Stages, OfferStatus, Roles
  <2>2. r.op # "join" /\ Held(r) = {}
    BY DEF Held, Idle
  <2> QED
    BY <1>1, <2>1, <2>2, Begun DEF Assign, center
<1>2. ASSUME NEW x \in Calls, NEW k \in Classes, NEW p \in Persons, Reassign(x, k, p)
      PROVE  Judged' /\ VerdictKept
  <2> DEFINE r == [Idle EXCEPT !.at = "judging", !.op = "handoff", !.center = CenterOf[k],
                               !.class = k, !.person = p, !.role = "giao_vien", !.seen = teacher[k]]
  <2>1. r \in Requests
    BY StaffingConstants DEF None, Idle, Requests, Stages, OfferStatus, Roles, TypeInv, TypeOK
  <2>2. r.op # "join" /\ Held(r) = {}
    BY DEF Held, Idle
  <2> QED
    BY <1>2, <2>1, <2>2, Begun DEF Reassign, center
<1>3. ASSUME NEW x \in Calls, call[x].at # "cancelling", NEW at \in {"assigning", "syncing"}, Step(x, at),
             UNCHANGED <<invite, offer>>
      PROVE  Judged' /\ VerdictKept
  <2> DEFINE r == [call[x] EXCEPT !.at = at]
  <2>1. at \in Stages
    BY DEF Stages
  <2>2. r \in Requests /\ call' = [call EXCEPT ![x] = r]
    BY <1>3, <2>1, StepMoves
  <2>3. r.op = call[x].op /\ r.row = call[x].row /\ Held(r) \subseteq Held(call[x])
    BY <1>3 DEF Held, TypeInv, TypeOK, Requests
  <2> HIDE DEF r
  <2> QED
    BY <1>3, <2>2, <2>3, Advances, Untouched
<1>4. ASSUME NEW x \in Calls, ConfirmAssigns(x) \/ TryLockCenter(x)
      PROVE  Judged' /\ VerdictKept
  <2>1. call[x].at # "cancelling" /\ UNCHANGED <<invite, offer>>
    BY <1>4 DEF ConfirmAssigns, TryLockCenter, center
  <2>2. Finish(x) \/ \E at \in {"assigning", "syncing"} : Step(x, at)
    BY <1>4 DEF ConfirmAssigns, TryLockCenter
  <2> QED
    BY <1>3, <2>1, <2>2, Rejected
<1>5. ASSUME NEW x \in Calls, ConfirmReassigns(x)
      PROVE  Judged' /\ VerdictKept
  <2>0. call[x] \in Requests /\ Shaped(call[x])
    BY DEF TypeInv, TypeOK
  <2> DEFINE r == [call[x] EXCEPT !.at = "judging", !.seen = teacher[call[x].class]]
  <2>1. r \in Requests
    BY <1>5, <2>0, ZenonT(60) DEF ConfirmReassigns, Requests, Stages, Shaped, AppointStages, TypeInv, TypeOK
  <2>2. r.op = call[x].op /\ r.row = call[x].row /\ Held(r) \subseteq Held(call[x])
    BY <1>5, <2>0 DEF ConfirmReassigns, Held, Requests
  <2>3. call' = [call EXCEPT ![x] = r] \/ Finish(x)
    BY <1>5, <2>0 DEF ConfirmReassigns, Finish, TypeInv, TypeOK
  <2>4. UNCHANGED <<invite, offer>>
    BY <1>5 DEF ConfirmReassigns, center
  <2> HIDE DEF r
  <2> QED
    BY <2>1, <2>2, <2>3, <2>4, Advances, Untouched, Rejected
<1>6. ASSUME NEW x \in Calls, SyncCloses(x)
      PROVE  Judged' /\ VerdictKept
  <2>0. call[x] \in Requests
    BY DEF TypeInv, TypeOK
  <2>1. \E at \in Stages, S \in SUBSET Stints : call' = [call EXCEPT ![x] = [call[x] EXCEPT !.at = at, !.stints = S]]
    <3> DEFINE a == [call[x] EXCEPT !.at = "closed", !.stints = Contradicting(Synced(x), call[x].class)]
    <3> DEFINE b == [call[x] EXCEPT !.at = "skipped"]
    <3>1. call' = [call EXCEPT ![x] = a] \/ call' = [call EXCEPT ![x] = b]
      BY <1>6, <2>0 DEF SyncCloses, TypeInv, TypeOK
    <3>2. Contradicting(Synced(x), call[x].class) \in SUBSET Stints
      BY DEF Contradicting, Active
    <3>3. b = [call[x] EXCEPT !.at = "skipped", !.stints = call[x].stints] /\ call[x].stints \in SUBSET Stints
      BY <2>0 DEF Requests
    <3> QED
      BY <3>1, <3>2, <3>3 DEF Stages
  <2>2. PICK at \in Stages, S \in SUBSET Stints : call' = [call EXCEPT ![x] = [call[x] EXCEPT !.at = at, !.stints = S]]
    BY <2>1
  <2> DEFINE r == [call[x] EXCEPT !.at = at, !.stints = S]
  <2>3. r \in Requests /\ r.op = call[x].op /\ r.row = call[x].row /\ Held(r) \subseteq Held(call[x])
    BY <1>6, <2>0 DEF SyncCloses, Held, Requests
  <2>4. UNCHANGED <<invite, offer>>
    BY <1>6 DEF SyncCloses, center
  <2> HIDE DEF r
  <2> QED
    BY <2>2, <2>3, <2>4, Advances, Untouched DEF r
<1>7. ASSUME NEW x \in Calls, call[x].at # "cancelling", Finish(x), offer' = Assigned(x), invite' = invite
      PROVE  Judged' /\ VerdictKept
  BY <1>7, AssignedJudged
<1>8. ASSUME NEW x \in Calls, NEW s \in Stints, AssignInserts(x, s) \/ SyncInserts(x, s)
      PROVE  Judged' /\ VerdictKept
  <2>1. CASE Reject(x)
    BY <2>1, Rejected DEF Reject, center
  <2>2. ~Reject(x) => call[x].at # "cancelling" /\ Finish(x) /\ offer' = Assigned(x) /\ invite' = invite
    BY <1>8 DEF AssignInserts, SyncInserts, Commits, center
  <2> QED
    BY <1>7, <2>1, <2>2
<1>9. ASSUME NEW s \in Stints, Remove(s)
      PROVE  Judged' /\ VerdictKept
  BY <1>9, Untouched DEF Remove, center, Judged, Unanswered, Open
<1> QED
  BY <1>1, <1>2, <1>4, <1>5, <1>6, <1>8, <1>9 DEF Appointing

LEMMA VerdictsKept == TypeInv /\ Judged /\ [Next]_vars => Judged' /\ VerdictKept
<1> SUFFICES ASSUME TypeInv, Judged, [Next]_vars PROVE Judged' /\ VerdictKept
  OBVIOUS
<1>1. CASE UNCHANGED vars
  BY <1>1, Untouched DEF vars, center, Judged, Unanswered, Open
<1> QED
  BY <1>1, InvitingJudged, JoiningJudged, RemovingJudged, ProposingJudged, AppointingJudged DEF Next

\* However many requests answer, confirm, revoke or cancel an invitation at a time, the
\* first to end it decides: what is accepted, revoked, declined, cancelled or assigned stays.
THEOREM VerdictsStay == Spec => VerdictsAreFinal
<1>1. Init => Judged
  BY DEF Init, Judged, Held, Idle, None
<1>2. TypeInv /\ Judged /\ [Next]_vars
        => [/\ \A i \in Invites : invite[i].status \in {"accepted", "revoked"} => invite'[i] = invite[i]
            /\ \A o \in Offers : offer[o] # NoOffer /\ ~Open(o) => offer'[o] = offer[o]]_vars
  BY VerdictsKept DEF VerdictKept
<1> QED
  BY <1>1, <1>2, InitTypes, TypesKept, VerdictsKept, PTL DEF Spec, VerdictsAreFinal

-----------------------------------------------------------------------------
(* Removals.                                                               *)

\* A removal under way has caught what its person holds.
Caught(r) ==
  r.op = "remove" /\ r.person \notin raced =>
    /\ r.at \in {"cancelling", "cancelled", "closing"} => OffersIn(r.person, r.center) \subseteq r.offers
    /\ r.at = "closing" => StintsIn(r.person, r.center) \subseteq r.stints

Cleared == RemovedHoldsNothing /\ \A x \in Calls : Caught(call[x])

\* A member whom no removal at a stage of missed concerns.
Seen(p, c, missed) ==
  IsLive(p, c) /\ \A y \in Calls : call[y].op = "remove" /\ call[y].person = p /\ call[y].center = c
                                     => call[y].at \notin missed

\* A step that gives stints and invitations only to those whom no removal has passed.
LEMMA Swept ==
  ASSUME TypeInv, Cleared, raced \subseteq raced', UNCHANGED member,
         \A y \in Calls : call'[y].op = "remove" => call'[y] = call[y] \/ call'[y].at = "judged",
         \A p \in Persons, c \in Centers : p \notin raced' =>
           /\ StintsIn(p, c)' \subseteq StintsIn(p, c) \/ Seen(p, c, {"closing"})
           /\ OffersIn(p, c)' \subseteq OffersIn(p, c) \/ Seen(p, c, {"cancelling", "cancelled", "closing"})
  PROVE  Cleared'
<1>1. RemovedHoldsNothing'
  BY DEF Cleared, RemovedHoldsNothing, Seen, IsLive
<1>2. ASSUME NEW y \in Calls
      PROVE  Caught(call[y])'
  <2>1. SUFFICES ASSUME call'[y].op = "remove", call'[y].person \notin raced', call'[y] = call[y]
                 PROVE  Caught(call[y])'
    BY DEF Caught
  <2>2. call[y].person \in Persons /\ call[y].center \in Centers
    BY <2>1 DEF TypeInv, Shaped
  <2> DEFINE p == call[y].person
  <2> DEFINE c == call[y].center
  <2>3. call[y].at = "closing" => StintsIn(p, c) \subseteq call[y].stints /\ ~Seen(p, c, {"closing"})
    BY <2>1 DEF Cleared, Caught, Seen
  <2>4. call[y].at \in {"cancelling", "cancelled", "closing"} =>
          OffersIn(p, c) \subseteq call[y].offers /\ ~Seen(p, c, {"cancelling", "cancelled", "closing"})
    BY <2>1 DEF Cleared, Caught, Seen
  <2>5. \A q \in Persons, d \in Centers : q = call'[y].person /\ d = call'[y].center =>
          /\ call[y].at = "closing" => StintsIn(q, d)' \subseteq call[y].stints
          /\ call[y].at \in {"cancelling", "cancelled", "closing"} => OffersIn(q, d)' \subseteq call[y].offers
    BY <2>1, <2>3, <2>4
  <2> QED
    BY <2>1, <2>2, <2>5 DEF Caught
<1> QED
  BY <1>1, <1>2 DEF Cleared

\* Rows that only go, or stay.
LEMMA StintsGo ==
  ASSUME \A s \in Stints : stint'[s] \in {stint[s], NoStint}
  PROVE  \A p, c : StintsIn(p, c)' \subseteq StintsIn(p, c)
BY DEF StintsIn, Active

LEMMA OffersGo ==
  ASSUME \A o \in Offers : Open(o)' => Open(o) /\ offer'[o].class = offer[o].class
                                       /\ offer'[o].person = offer[o].person
  PROVE  \A p, c : OffersIn(p, c)' \subseteq OffersIn(p, c)
BY DEF OffersIn

LEMMA RacedSeen ==
  ASSUME NEW p, NEW c, NEW missed, Raced(p, c, missed)
  PROVE  raced \subseteq raced' /\ (p \in raced' \/ Seen(p, c, missed))
BY DEF Raced, Seen

\* A new stint is of one person in one center.
LEMMA StintComes ==
  ASSUME TypeInv, NEW k \in Classes, NEW p \in Persons, NEW role, NEW s \in Stints, NEW base,
         base \in [Stints -> StintRows], \A t \in Stints : base[t] \in {stint[t], NoStint},
         stint' = [base EXCEPT ![s] = [class |-> k, person |-> p, role |-> role]],
         Raced(p, CenterOf[k], {"closing"})
  PROVE  /\ raced \subseteq raced'
         /\ \A q \in Persons, c \in Centers :
              q \notin raced' => StintsIn(q, c)' \subseteq StintsIn(q, c) \/ Seen(q, c, {"closing"})
<1>1. \A t \in Stints : t # s => stint'[t] \in {stint[t], NoStint}
  OBVIOUS
<1>2. stint'[s].class = k /\ stint'[s].person = p
  OBVIOUS
<1>3. \A q, c : ~(q = p /\ c = CenterOf[k]) => StintsIn(q, c)' \subseteq StintsIn(q, c)
  BY <1>1, <1>2 DEF StintsIn, Active
<1> QED
  BY <1>3, RacedSeen

LEMMA InvitingCleared == TypeInv /\ Cleared /\ Inviting => Cleared'
<1> SUFFICES ASSUME TypeInv, Cleared, Inviting PROVE Cleared'
  OBVIOUS
<1>1. UNCHANGED <<member, stint, offer, raced>>
  BY DEF Inviting, Expire, Revoke, Create, Accept, center
<1>2. \A y \in Calls : call'[y].op = "remove" => call'[y] = call[y]
  <2>1. ASSUME NEW x \in Calls, NEW i \in Invites, Accept(x, i)
        PROVE  \A y \in Calls : y # x => call'[y] = call[y] /\ call'[x].op = "join"
    BY <2>1 DEF Accept, Idle, TypeInv, TypeOK
  <2>2. ASSUME NEW x \in Calls, NEW i \in Invites, Accept(x, i)
        PROVE  call'[x].op = "join"
    BY <2>2 DEF Accept, Idle, TypeInv, TypeOK
  <2>3. call' = call \/ \E x \in Calls, i \in Invites : Accept(x, i)
    BY DEF Inviting, Expire, Revoke, Create
  <2> QED
    BY <2>1, <2>2, <2>3
<1>3. \A p, c : StintsIn(p, c)' \subseteq StintsIn(p, c) /\ OffersIn(p, c)' \subseteq OffersIn(p, c)
  BY <1>1, StintsGo, OffersGo DEF Open
<1> QED
  BY <1>1, <1>2, <1>3, Swept

\* A request that ends without a removal.
LEMMA FinishClears ==
  ASSUME TypeInv, NEW x \in Calls, Finish(x)
  PROVE  \A y \in Calls : call'[y].op = "remove" => call'[y] = call[y]
BY CallStep, IdleShaped DEF Finish, Done, Idle, None, TypeInv

LEMMA RejectClears ==
  ASSUME TypeInv, Cleared, NEW x \in Calls, Finish(x), UNCHANGED <<member, stint, offer, raced>>
  PROVE  Cleared'
<1>1. \A p, c : StintsIn(p, c)' \subseteq StintsIn(p, c) /\ OffersIn(p, c)' \subseteq OffersIn(p, c)
  BY StintsGo, OffersGo DEF Open
<1> QED
  BY <1>1, FinishClears, Swept

\* So does a request that begins or gets on and is no removal, or begins one.
LEMMA MoveClears ==
  ASSUME TypeInv, Cleared, NEW x \in Calls, NEW r \in Requests, call' = [call EXCEPT ![x] = r],
         r.op # "remove" \/ r.at = "judged", UNCHANGED <<member, stint, offer, raced>>
  PROVE  Cleared'
<1>1. \A p, c : StintsIn(p, c)' \subseteq StintsIn(p, c) /\ OffersIn(p, c)' \subseteq OffersIn(p, c)
  BY StintsGo, OffersGo DEF Open
<1>2. \A y \in Calls : call'[y].op = "remove" => call'[y] = call[y] \/ call'[y].at = "judged"
  BY CallStep DEF TypeInv
<1> QED
  BY <1>1, <1>2, Swept

LEMMA JoiningCleared == TypeInv /\ Cleared /\ Joining => Cleared'
<1> SUFFICES ASSUME TypeInv, Cleared, NEW x \in Calls, FindByPhone(x) \/ CreateInCenter(x) \/ Reactivate(x)
             PROVE  Cleared'
  BY DEF Joining
<1>1. ASSUME FindByPhone(x), NEW at \in {"creating", "reactivating"}, Step(x, at)
      PROVE  Cleared'
  <2> DEFINE r == [call[x] EXCEPT !.at = at]
  <2>1. at \in Stages
    BY DEF Stages
  <2>2. r \in Requests /\ call' = [call EXCEPT ![x] = r]
    BY <1>1, <2>1, StepMoves
  <2>3. r.op # "remove"
    BY <1>1 DEF FindByPhone, TypeInv, TypeOK, Requests, Shaped, RemoveStages
  <2>4. UNCHANGED <<member, stint, offer, raced>>
    BY <1>1 DEF FindByPhone, center
  <2> HIDE DEF r
  <2> QED
    BY <2>2, <2>3, <2>4, MoveClears
<1>2. CASE Finish(x) /\ UNCHANGED <<member, stint, offer, raced>>
  BY <1>2, RejectClears
<1>3. ASSUME Joins(x), call[x].op = "join"
      PROVE  Cleared'
  <2> DEFINE p == call[x].person
  <2> DEFINE c == call[x].center
  <2>1. p \in Persons /\ c \in Centers
    BY <1>3 DEF TypeInv, Shaped
  <2>2. \A q \in Persons, d \in Centers : IsLive(q, d) => IsLive(q, d)'
    BY <1>3, <2>1 DEF Joins, IsLive, TypeInv, TypeOK
  <2>3. \A q, d : StintsIn(q, d)' \subseteq StintsIn(q, d)
    BY <1>3, StintsGo DEF Joins
  <2>4. \A q, d : OffersIn(q, d)' \subseteq OffersIn(q, d)
    BY <1>3, OffersGo DEF Joins, Open
  <2>5. raced' = raced /\ \A y \in Calls : call'[y].op = "remove" => call'[y] = call[y]
    BY <1>3, FinishClears DEF Joins
  <2>6. RemovedHoldsNothing'
    BY <2>2, <2>3, <2>4, <2>5 DEF Cleared, RemovedHoldsNothing
  <2>7. ASSUME NEW y \in Calls
        PROVE  Caught(call[y])'
    <3>1. SUFFICES ASSUME call'[y].op = "remove", call'[y] = call[y]
                   PROVE  Caught(call[y])'
      BY <2>5 DEF Caught
    <3>2. \A q, d : q = call'[y].person /\ d = call'[y].center =>
            StintsIn(q, d)' \subseteq StintsIn(call[y].person, call[y].center)
            /\ OffersIn(q, d)' \subseteq OffersIn(call[y].person, call[y].center)
      BY <2>3, <2>4, <3>1
    <3> QED
      BY <2>5, <3>1, <3>2 DEF Cleared, Caught
  <2> QED
    BY <2>6, <2>7 DEF Cleared
<1>4. call[x].at \in {"creating", "reactivating"} => call[x].op = "join"
  BY DEF TypeInv, Shaped, JoinStages
<1>5. CASE FindByPhone(x)
  <2>1. Finish(x) \/ \E at \in {"creating", "reactivating"} : Step(x, at)
    BY <1>5 DEF FindByPhone
  <2> QED
    BY <1>1, <1>2, <1>5, <2>1 DEF FindByPhone, center
<1> QED
  BY <1>2, <1>3, <1>4, <1>5 DEF CreateInCenter, Reactivate, Reject, center

\* A removal that gets on, with the rows as they are.
LEMMA RemovalMoves ==
  ASSUME TypeInv, Cleared, NEW x \in Calls, NEW r \in Requests, call' = [call EXCEPT ![x] = r],
         Caught(r), UNCHANGED <<member, stint, offer, raced>>
  PROVE  Cleared'
<1>1. call'[x] = r /\ \A y \in Calls : y # x => call'[y] = call[y]
  BY CallStep DEF TypeInv
<1>2. \A p, c : StintsIn(p, c)' = StintsIn(p, c) /\ OffersIn(p, c)' = OffersIn(p, c)
  BY DEF StintsIn, OffersIn, Active, Open
<1>3. RemovedHoldsNothing'
  BY <1>2 DEF Cleared, RemovedHoldsNothing, IsLive
<1>4. ASSUME NEW y \in Calls
      PROVE  Caught(call[y])'
  <2>1. PICK q : q = call'[y] /\ Caught(q)
    BY <1>1 DEF Cleared
  <2> QED
    BY <1>2, <2>1 DEF Caught
<1> QED
  BY <1>3, <1>4 DEF Cleared

LEMMA RemovingCleared == TypeInv /\ Cleared /\ Removing => Cleared'
<1> SUFFICES ASSUME TypeInv, Cleared, NEW x \in Calls,
                    \/ \E c \in Centers, p \in Persons : RemoveMember(x, c, p)
                    \/ CancelOpenForMember(x) \/ CancelsOpen(x) \/ CloseMembership(x) \/ Disable(x)
             PROVE  Cleared'
  BY DEF Removing
<1>0. call[x] \in Requests /\ Shaped(call[x])
  BY DEF TypeInv, TypeOK
<1>1. ASSUME NEW c \in Centers, NEW p \in Persons, RemoveMember(x, c, p)
      PROVE  Cleared'
  <2> DEFINE r == [Idle EXCEPT !.at = "judged", !.op = "remove", !.center = c, !.person = p]
  <2>1. r \in Requests
    BY StaffingConstants DEF None, Idle, Requests, Stages, OfferStatus
  <2>2. r.at = "judged"
    BY DEF Idle
  <2> QED
    BY <1>1, <2>1, <2>2, MoveClears DEF RemoveMember, center
<1>2. CASE CancelOpenForMember(x)
  <2> DEFINE r == [call[x] EXCEPT !.at = "cancelling",
                                  !.offers = OffersIn(call[x].person, call[x].center)]
  <2>1. r \in Requests
    BY <1>0 DEF Requests, Stages, OffersIn
  <2>2. Caught(r)
    BY <1>0 DEF Caught, Requests
  <2>3. call' = [call EXCEPT ![x] = r] /\ UNCHANGED <<member, stint, offer, raced>>
    BY <1>2 DEF CancelOpenForMember, center
  <2> HIDE DEF r
  <2> QED
    BY <2>1, <2>2, <2>3, RemovalMoves
<1>2a. CASE CancelsOpen(x)
  <2> DEFINE r == [call[x] EXCEPT !.at = "cancelled", !.offers = {o \in call[x].offers : Open(o)}]
  <2>1. r \in Requests
    BY <1>0 DEF Requests, Stages
  <2>2. Caught(call[x]) /\ call[x].at = "cancelling"
    BY <1>2a DEF CancelsOpen, Cleared
  <2>3. Caught(r)
    BY <1>0, <2>2 DEF Caught, OffersIn, Requests
  <2>4. call' = [call EXCEPT ![x] = r] /\ UNCHANGED <<member, stint, offer, raced>>
    BY <1>2a DEF CancelsOpen, center
  <2> HIDE DEF r
  <2> QED
    BY <2>1, <2>3, <2>4, RemovalMoves
<1>3. CASE CloseMembership(x)
  <2> DEFINE r == [call[x] EXCEPT !.at = "closing",
                                  !.stints = StintsIn(call[x].person, call[x].center)]
  <2>1. r \in Requests
    BY <1>0 DEF Requests, Stages, StintsIn, Active
  <2>2. Caught(call[x]) /\ call[x].at = "cancelled"
    BY <1>3 DEF CloseMembership, Cleared
  <2>3. Caught(r)
    BY <1>0, <2>2 DEF Caught, Requests
  <2>4. call' = [call EXCEPT ![x] = r] /\ UNCHANGED <<member, stint, offer, raced>>
    BY <1>3 DEF CloseMembership, center
  <2> HIDE DEF r
  <2> QED
    BY <2>1, <2>3, <2>4, RemovalMoves
<1>4. ASSUME Disable(x), Removes(x)
      PROVE  Cleared'
  <2> DEFINE p == call[x].person
  <2> DEFINE c == call[x].center
  <2>1. p \in Persons /\ c \in Centers /\ call[x].op = "remove" /\ call[x].at = "closing"
    BY <1>0, <1>4 DEF Disable, Shaped, RemoveStages
  <2>2. p \notin raced => StintsIn(p, c) \subseteq call[x].stints /\ OffersIn(p, c) \subseteq call[x].offers
    BY <2>1 DEF Cleared, Caught
  <2>3. /\ \A s \in Stints : stint'[s] = IF s \in call[x].stints THEN NoStint ELSE stint[s]
        /\ \A o \in Offers : offer'[o] = IF o \in call[x].offers
                                         THEN [offer[o] EXCEPT !.status = "cancelled"] ELSE offer[o]
    BY <1>4 DEF Removes
  <2>4. \A q, d : StintsIn(q, d)' \subseteq StintsIn(q, d) \ call[x].stints
    BY <2>3 DEF StintsIn, Active
  <2>5. \A o \in Offers : Open(o)' => o \notin call[x].offers /\ offer'[o] = offer[o]
    <3>1. \A o \in Offers : [offer[o] EXCEPT !.status = "cancelled"].status = "cancelled"
      BY DEF TypeInv, TypeOK, OfferRows
    <3> QED
      BY <2>3, <3>1 DEF Open
  <2>6. \A q, d : OffersIn(q, d)' \subseteq OffersIn(q, d) \ call[x].offers
    BY <2>5 DEF OffersIn, Open
  <2>7. /\ raced' = raced
        /\ \A q \in Persons, d \in Centers : IsLive(q, d) => IsLive(q, d)' \/ (q = p /\ d = c)
    BY <1>4, <2>1 DEF Removes, IsLive, TypeInv, TypeOK
  <2>8. RemovedHoldsNothing'
    BY <2>1, <2>2, <2>4, <2>6, <2>7 DEF Cleared, RemovedHoldsNothing
  <2>9. \A y \in Calls : call'[y].op = "remove" => call'[y] = call[y]
    BY <1>4, FinishClears DEF Removes
  <2>10. ASSUME NEW y \in Calls
         PROVE  Caught(call[y])'
    <3>1. SUFFICES ASSUME call'[y].op = "remove", call'[y] = call[y]
                   PROVE  Caught(call[y])'
      BY <2>9 DEF Caught
    <3>2. \A q, d : q = call'[y].person /\ d = call'[y].center =>
            StintsIn(q, d)' \subseteq StintsIn(call[y].person, call[y].center)
            /\ OffersIn(q, d)' \subseteq OffersIn(call[y].person, call[y].center)
      BY <2>4, <2>6, <3>1
    <3> QED
      BY <2>7, <3>1, <3>2 DEF Cleared, Caught
  <2> QED
    BY <2>8, <2>10 DEF Cleared
<1>5. CASE Reject(x)
  BY <1>5, RejectClears DEF Reject, center
<1> QED
  BY <1>1, <1>2, <1>2a, <1>3, <1>4, <1>5 DEF Disable

LEMMA ProposingCleared == TypeInv /\ Cleared /\ Proposing => Cleared'
<1> SUFFICES ASSUME TypeInv, Cleared, NEW x \in Calls,
                    \/ \E k \in Classes, p \in Persons, role \in Roles : Send(x, k, p, role)
                    \/ \E o \in Offers :
                         \/ SendInserts(x, o) \/ Confirm(x, o)
                         \/ \E to \in {"accepted", "declined", "cancelled"} : Answer(x, o, to)
                    \/ Transition(x) \/ ConfirmTransition(x)
             PROVE  Cleared'
  BY DEF Proposing
<1>0. call[x] \in Requests /\ Shaped(call[x]) /\ offer \in [Offers -> OfferRows]
  BY DEF TypeInv, TypeOK
<1>1. ASSUME NEW k \in Classes, NEW p \in Persons, NEW role \in Roles, Send(x, k, p, role)
      PROVE  Cleared'
  <2> DEFINE r == [Idle EXCEPT !.at = "proposed", !.op = "send", !.center = CenterOf[k],
                               !.class = k, !.person = p, !.role = role]
  <2>1. r \in Requests
    BY StaffingConstants DEF None, Idle, Requests, Stages, OfferStatus
  <2>2. r.op # "remove"
    BY DEF Idle
  <2> QED
    BY <1>1, <2>1, <2>2, MoveClears DEF Send, center
<1>2. ASSUME NEW u \in Offers, SendInserts(x, u), ~Reject(x)
      PROVE  Cleared'
  <2> DEFINE p == call[x].person
  <2>1. call[x].class \in Classes /\ p \in Persons /\ call[x].center = CenterOf[call[x].class]
    BY <1>0, <1>2 DEF SendInserts, Shaped
  <2>2. /\ \A o \in Offers : o # u => offer'[o] = offer[o]
        /\ offer'[u].person = p /\ offer'[u].class = call[x].class
    BY <1>0, <1>2 DEF SendInserts
  <2>3. \A q, d : ~(q = p /\ d = call[x].center) => OffersIn(q, d)' \subseteq OffersIn(q, d)
    BY <2>1, <2>2 DEF OffersIn, Open
  <2>4. Raced(p, call[x].center, {"cancelling", "cancelled", "closing"}) /\ Finish(x) /\ UNCHANGED <<member, stint>>
    BY <1>2 DEF SendInserts, center
  <2>5. raced \subseteq raced' /\ (p \in raced' \/ Seen(p, call[x].center, {"cancelling", "cancelled", "closing"}))
    BY <2>4, RacedSeen
  <2>6. \A q, d : StintsIn(q, d)' \subseteq StintsIn(q, d)
    BY <2>4, StintsGo
  <2>7. \A q \in Persons, d \in Centers : q \notin raced' =>
          OffersIn(q, d)' \subseteq OffersIn(q, d) \/ Seen(q, d, {"cancelling", "cancelled", "closing"})
    BY <2>3, <2>5
  <2> QED
    BY <2>4, <2>5, <2>6, <2>7, FinishClears, Swept
<1>3. ASSUME NEW o \in Offers, NEW to \in {"accepted", "declined", "cancelled"}, Answer(x, o, to)
      PROVE  Cleared'
  <2> DEFINE r == [Idle EXCEPT !.at = "answering", !.op = "answer", !.row = o, !.seen = to]
  <2>1. r \in Requests
    BY StaffingConstants DEF None, Idle, Requests, Stages, OfferStatus
  <2>2. r.op # "remove"
    BY DEF Idle
  <2> QED
    BY <1>3, <2>1, <2>2, MoveClears DEF Answer, center
<1>4. ASSUME Transition(x), ~Reject(x)
      PROVE  Cleared'
  <2> DEFINE u == call[x].row
  <2>1. u \in Offers /\ Open(u)
    BY <1>0, <1>4 DEF Transition, Shaped, Changeable, From, Open
  <2>2. /\ \A o \in Offers : o # u => offer'[o] = offer[o]
        /\ offer'[u].person = offer[u].person /\ offer'[u].class = offer[u].class
    BY <1>0, <1>4, <2>1 DEF Transition, OfferRows
  <2>3. Finish(x) /\ UNCHANGED <<member, stint, raced>>
    BY <1>4 DEF Transition, center
  <2>4. \A q, d : OffersIn(q, d)' \subseteq OffersIn(q, d) /\ StintsIn(q, d)' \subseteq StintsIn(q, d)
    BY <2>1, <2>2, <2>3, StintsGo DEF OffersIn, Open
  <2> QED
    BY <2>3, <2>4, FinishClears, Swept
<1>5. ASSUME NEW o \in Offers, Confirm(x, o)
      PROVE  Cleared'
  <2> DEFINE k == offer[o].class
  <2> DEFINE r == [Idle EXCEPT !.at = "confirming", !.op = "confirm", !.row = o, !.center = CenterOf[k],
                               !.class = k, !.person = offer[o].person, !.role = offer[o].role]
  <2>0. k \in Classes /\ offer[o].person \in Persons /\ offer[o].role \in Roles
    BY <1>5 DEF Confirm, TypeInv, Rows
  <2>1. r \in Requests
    BY <2>0, StaffingConstants DEF None, Idle, Requests, Stages, OfferStatus
  <2>2. r.op # "remove"
    BY DEF Idle
  <2> QED
    BY <1>5, <2>1, <2>2, MoveClears DEF Confirm, center
<1>6. ASSUME ConfirmTransition(x), ~Reject(x)
      PROVE  Cleared'
  <2> DEFINE r == [call[x] EXCEPT !.at = "appointing", !.offers = {call[x].row}]
  <2>1. call[x].row \in Offers
    BY <1>0, <1>6 DEF ConfirmTransition, Shaped
  <2>2. r \in Requests
    BY <1>0, <2>1 DEF Requests, Stages
  <2>3. r.op # "remove"
    BY <1>0, <1>6 DEF ConfirmTransition, Requests, Shaped, RemoveStages
  <2>4. call' = [call EXCEPT ![x] = r]
    BY <1>6 DEF ConfirmTransition
  <2> HIDE DEF r
  <2> QED
    BY <1>6, <2>2, <2>3, <2>4, MoveClears DEF ConfirmTransition, center
<1>7. CASE Reject(x)
  BY <1>7, RejectClears DEF Reject, center
<1> QED
  BY <1>1, <1>2, <1>3, <1>4, <1>5, <1>6, <1>7

LEMMA AssignedGo ==
  ASSUME TypeInv, NEW x \in Calls, offer' = Assigned(x)
  PROVE  \A q, d : OffersIn(q, d)' \subseteq OffersIn(q, d)
<1>1. \A o \in Offers : Open(o)' => offer'[o] = offer[o]
  BY AssignedTypes DEF Open
<1> QED
  BY <1>1 DEF OffersIn, Open

LEMMA AppointingCleared == TypeInv /\ Cleared /\ Appointing => Cleared'
<1> SUFFICES ASSUME TypeInv, Cleared, Appointing
             PROVE  Cleared'
  OBVIOUS
<1>1. ASSUME NEW x \in Calls, NEW k \in Classes, NEW p \in Persons, Assign(x, k, p)
      PROVE  Cleared'
  <2> DEFINE r == [Idle EXCEPT !.at = "assigning", !.op = "assign", !.center = CenterOf[k],
                               !.class = k, !.person = p, !.role = "tro_giang"]
  <2>1. r \in Requests
    BY StaffingConstants DEF None, Idle, Requests, Stages, OfferStatus, Roles
  <2>2. r.op # "remove"
    BY DEF Idle
  <2> QED
    BY <1>1, <2>1, <2>2, MoveClears DEF Assign, center
<1>2. ASSUME NEW x \in Calls, NEW k \in Classes, NEW p \in Persons, Reassign(x, k, p)
      PROVE  Cleared'
  <2> DEFINE r == [Idle EXCEPT !.at = "judging", !.op = "handoff", !.center = CenterOf[k],
                               !.class = k, !.person = p, !.role = "giao_vien", !.seen = teacher[k]]
  <2>1. r \in Requests
    BY StaffingConstants DEF None, Idle, Requests, Stages, OfferStatus, Roles, TypeInv, TypeOK
  <2>2. r.op # "remove"
    BY DEF Idle
  <2> QED
    BY <1>2, <2>1, <2>2, MoveClears DEF Reassign, center
<1>3. ASSUME NEW x \in Calls, call[x].at \in AppointStages,
             \/ \E at \in {"assigning", "syncing"} : Step(x, at)
             \/ \E r \in Requests : call' = [call EXCEPT ![x] = r] /\ r.op = call[x].op
             \/ Finish(x),
             UNCHANGED <<center, offer, stint, raced>>
      PROVE  Cleared'
  <2>1. call[x].op # "remove"
    BY <1>3 DEF TypeInv, Shaped, RemoveStages, AppointStages
  <2>2. ASSUME NEW at \in {"assigning", "syncing"}, Step(x, at)
        PROVE  \E r \in Requests : call' = [call EXCEPT ![x] = r] /\ r.op = call[x].op
    <3>1. at \in Stages
      BY DEF Stages
    <3> QED
      BY <2>2, <3>1, StepMoves, ZenonT(60) DEF TypeInv, TypeOK, Requests
  <2> QED
    BY <1>3, <2>1, <2>2, MoveClears, RejectClears DEF center
<1>4. ASSUME NEW x \in Calls, ConfirmAssigns(x) \/ TryLockCenter(x)
      PROVE  Cleared'
  BY <1>3, <1>4 DEF ConfirmAssigns, TryLockCenter, AppointStages
<1>5. ASSUME NEW x \in Calls, ConfirmReassigns(x)
      PROVE  Cleared'
  <2>0. call[x] \in Requests /\ Shaped(call[x])
    BY DEF TypeInv, TypeOK
  <2> DEFINE r == [call[x] EXCEPT !.at = "judging", !.seen = teacher[call[x].class]]
  <2>1. r \in Requests
    BY <1>5, <2>0, ZenonT(60) DEF ConfirmReassigns, Requests, Stages, Shaped, AppointStages, TypeInv, TypeOK
  <2>2. r.op = call[x].op
    BY <2>0 DEF Requests
  <2>3. call' = [call EXCEPT ![x] = r] \/ Finish(x)
    BY <1>5, <2>0 DEF ConfirmReassigns, Finish, TypeInv, TypeOK
  <2>4. UNCHANGED <<center, offer, stint, raced>> /\ call[x].at \in AppointStages
    BY <1>5 DEF ConfirmReassigns, AppointStages
  <2> HIDE DEF r
  <2> QED
    BY <1>3, <2>1, <2>2, <2>3, <2>4
<1>6. ASSUME NEW x \in Calls, SyncCloses(x)
      PROVE  Cleared'
  <2>0. call[x] \in Requests
    BY DEF TypeInv, TypeOK
  <2> DEFINE a == [call[x] EXCEPT !.at = "closed", !.stints = Contradicting(Synced(x), call[x].class)]
  <2> DEFINE b == [call[x] EXCEPT !.at = "skipped"]
  <2>1. a \in Requests /\ a.op = call[x].op
    <3>1. Contradicting(Synced(x), call[x].class) \in SUBSET Stints
      BY DEF Contradicting, Active
    <3>2. \A S \in SUBSET Stints : [call[x] EXCEPT !.at = "closed", !.stints = S] \in Requests
      BY <2>0 DEF Requests, Stages
    <3>3. a.op = call[x].op
      BY <2>0 DEF Requests
    <3> QED
      BY <3>1, <3>2, <3>3
  <2>2. b \in Requests /\ b.op = call[x].op
    BY <2>0 DEF Requests, Stages
  <2>3. call' = [call EXCEPT ![x] = a] \/ call' = [call EXCEPT ![x] = b]
    BY <1>6, <2>0 DEF SyncCloses, TypeInv, TypeOK
  <2>4. UNCHANGED <<center, offer, stint, raced>> /\ call[x].at \in AppointStages
    BY <1>6 DEF SyncCloses, AppointStages
  <2> HIDE DEF a, b
  <2> QED
    BY <1>3, <2>1, <2>2, <2>3, <2>4
<1>7. ASSUME NEW x \in Calls, NEW s \in Stints, AssignInserts(x, s), ~Reject(x)
      PROVE  Cleared'
  <2>1. call[x].class \in Classes /\ call[x].person \in Persons /\ call[x].center = CenterOf[call[x].class]
    BY <1>7 DEF AssignInserts, TypeInv, Shaped, AppointStages
  <2>2. stint \in [Stints -> StintRows] /\ \A t \in Stints : stint[t] \in {stint[t], NoStint}
    BY DEF TypeInv, TypeOK
  <2>3. /\ raced \subseteq raced'
        /\ \A q \in Persons, d \in Centers :
             q \notin raced' => StintsIn(q, d)' \subseteq StintsIn(q, d) \/ Seen(q, d, {"closing"})
    BY <1>7, <2>1, <2>2, StintComes DEF AssignInserts
  <2>4. \A q, d : OffersIn(q, d)' \subseteq OffersIn(q, d)
    BY <1>7, AssignedGo DEF AssignInserts
  <2>5. Finish(x) /\ member' = member
    BY <1>7 DEF AssignInserts, center
  <2> QED
    BY <2>3, <2>4, <2>5, FinishClears, Swept
<1>8. ASSUME NEW x \in Calls, NEW s \in Stints, SyncInserts(x, s), ~Reject(x)
      PROVE  Cleared'
  <2> DEFINE closed == [t \in Stints |-> IF t \in call[x].stints THEN NoStint ELSE stint[t]]
  <2>1. call[x].class \in Classes /\ call[x].person \in Persons /\ call[x].center = CenterOf[call[x].class]
    BY <1>8 DEF SyncInserts, TypeInv, Shaped, AppointStages
  <2>2. closed \in [Stints -> StintRows] /\ \A t \in Stints : closed[t] \in {stint[t], NoStint}
    BY RowTypes DEF TypeInv, TypeOK
  <2>3. \/ stint' = closed /\ raced' = raced
        \/ /\ stint' = [closed EXCEPT ![s] = [class |-> call[x].class, person |-> call[x].person,
                                              role |-> "giao_vien"]]
           /\ Raced(call[x].person, CenterOf[call[x].class], {"closing"})
    BY <1>8, <2>1 DEF SyncInserts, Synced
  <2> HIDE DEF closed
  <2>4. ASSUME stint' = closed
        PROVE  \A q, d : StintsIn(q, d)' \subseteq StintsIn(q, d)
    <3>1. \A t \in Stints : stint'[t] \in {stint[t], NoStint}
      BY <2>2, <2>4
    <3> QED
      BY <3>1, StintsGo
  <2>5. /\ raced \subseteq raced'
        /\ \A q \in Persons, d \in Centers :
             q \notin raced' => StintsIn(q, d)' \subseteq StintsIn(q, d) \/ Seen(q, d, {"closing"})
    BY <2>1, <2>2, <2>3, <2>4, StintComes
  <2>6. offer' = Assigned(x) /\ Finish(x) /\ member' = member
    BY <1>8 DEF SyncInserts, Commits, center
  <2>7. \A q, d : OffersIn(q, d)' \subseteq OffersIn(q, d)
    BY <2>6, AssignedGo
  <2> QED
    BY <2>5, <2>6, <2>7, FinishClears, Swept
<1>9. ASSUME NEW s \in Stints, Remove(s)
      PROVE  Cleared'
  <2>1. \A t \in Stints : stint'[t] \in {stint[t], NoStint}
    BY <1>9 DEF Remove, TypeInv, TypeOK
  <2>2. UNCHANGED <<member, offer, call, raced>>
    BY <1>9 DEF Remove, center
  <2>3. \A q, d : StintsIn(q, d)' \subseteq StintsIn(q, d) /\ OffersIn(q, d)' \subseteq OffersIn(q, d)
    BY <2>1, <2>2, StintsGo, OffersGo DEF Open
  <2> QED
    BY <2>2, <2>3, Swept
<1>10. ASSUME NEW x \in Calls, Reject(x)
       PROVE  Cleared'
  BY <1>10, RejectClears DEF Reject, center
<1> QED
  BY <1>1, <1>2, <1>4, <1>5, <1>6, <1>7, <1>8, <1>9, <1>10 DEF Appointing

LEMMA ClearedKept == TypeInv /\ Cleared /\ [Next]_vars => Cleared'
<1> SUFFICES ASSUME TypeInv, Cleared, [Next]_vars PROVE Cleared'
  OBVIOUS
<1>1. CASE UNCHANGED vars
  BY <1>1, StintsGo, OffersGo, Swept DEF vars, center, Open
<1> QED
  BY <1>1, InvitingCleared, JoiningCleared, RemovingCleared, ProposingCleared, AppointingCleared DEF Next

\* Whatever assignments, handoffs and invitations race a removal, what a removed member is
\* left with was written while the removal was under way or later, never before it.
THEOREM RemovalsClear == Spec => []RemovedHoldsNothing
<1>1. Init => Cleared
  <2> SUFFICES ASSUME Init PROVE Cleared
    OBVIOUS
  <2>1. \A x \in Calls : Caught(call[x])
    BY DEF Init, Caught, Idle, None
  <2>2. ASSUME NEW p \in Persons, NEW c \in Centers, ~IsLive(p, c)
        PROVE  StintsIn(p, c) = {}
    <3>1. SUFFICES ASSUME NEW s \in Stints, stint[s] # NoStint, stint[s].person = p, CenterOf[stint[s].class] = c
                   PROVE  FALSE
      BY DEF StintsIn, Active
    <3>2. s \in Classes /\ p = Primary[s] /\ c = First
      BY <3>1, StaffingConstants DEF Init
    <3>3. p \notin Outsiders
      BY <3>2, StaffingConstants
    <3> QED
      BY <2>2, <3>2, <3>3 DEF Init, IsLive
  <2>3. ASSUME NEW p \in Persons, NEW c \in Centers, ~IsLive(p, c)
        PROVE  OffersIn(p, c) = {}
    <3>1. SUFFICES ASSUME NEW o \in Offers, FirstOffers[o] # NoOffer, FirstOffers[o].person = p,
                          CenterOf[FirstOffers[o].class] = c
                   PROVE  FALSE
      BY DEF Init, OffersIn, Open, NoOffer, None
    <3>2. p \notin Outsiders /\ c = First
      BY <3>1, StaffingConstants, FirstOffersAreOpen
    <3> QED
      BY <2>3, <3>2 DEF Init, IsLive
  <2> QED
    BY <2>1, <2>2, <2>3 DEF Cleared, RemovedHoldsNothing
<1> QED
  BY <1>1, InitTypes, TypesKept, ClearedKept, PTL DEF Spec, Cleared

-----------------------------------------------------------------------------
(* Handoffs.                                                               *)

Holding == {"syncing", "closed", "skipped"}

Primaries(k) == {s \in Stints : stint[s].class = k /\ stint[s].role = "giao_vien"}

\* One request holds the lock of a center, and the one that has closed the stints of
\* another's has all of them: nobody else gives a primary stint in its center.
HandedOver ==
  /\ PrimaryIsTeacher
  /\ \A x, y \in Calls : call[x].at \in Holding /\ call[y].at \in Holding
                           /\ call[x].center = call[y].center => x = y
  /\ \A x \in Calls : call[x].at = "assigning" => call[x].role = "tro_giang"
  /\ \A x \in Calls : call[x].at = "closed" =>
       \A s \in Primaries(call[x].class) : stint[s].person # call[x].person => s \in call[x].stints

\* A step that gives no primary stint, names no teacher and lets no request hold a center.
LEMMA HandsOff ==
  ASSUME TypeInv, HandedOver, UNCHANGED <<teacher, overtaken>>,
         \A s \in Stints : stint'[s] = stint[s] \/ stint'[s].role # "giao_vien",
         \A y \in Calls : call'[y].at \in Holding \cup {"assigning"} => call'[y] = call[y]
  PROVE  HandedOver'
<1>1. PrimaryIsTeacher'
  BY DEF HandedOver, PrimaryIsTeacher
<1>2. \A x, y \in Calls : call'[x].at \in Holding /\ call'[y].at \in Holding
                            /\ call'[x].center = call'[y].center => x = y
  BY DEF HandedOver
<1>3. \A x \in Calls : call'[x].at = "assigning" => call'[x].role = "tro_giang"
  BY DEF HandedOver
<1>4. ASSUME NEW x \in Calls, call'[x].at = "closed", NEW s \in Stints, stint'[s].class = call'[x].class,
             stint'[s].role = "giao_vien", stint'[s].person # call'[x].person
      PROVE  s \in call'[x].stints
  <2>1. call'[x] = call[x] /\ stint'[s] = stint[s]
    BY <1>4 DEF Holding
  <2> QED
    BY <1>4, <2>1 DEF HandedOver, Primaries
<1> QED
  BY <1>1, <1>2, <1>3, <1>4 DEF HandedOver, Primaries

LEMMA FinishHands ==
  ASSUME TypeInv, HandedOver, NEW x \in Calls, Finish(x), UNCHANGED <<teacher, overtaken>>,
         \A s \in Stints : stint'[s] = stint[s] \/ stint'[s].role # "giao_vien"
  PROVE  HandedOver'
<1>1. \A y \in Calls : call'[y].at \in Holding \cup {"assigning"} => call'[y] = call[y]
  BY CallStep, IdleShaped DEF Finish, Done, Idle, Holding, TypeInv
<1> QED
  BY <1>1, HandsOff

\* A request that gets on, the rows being what they are.
LEMMA HandsOn ==
  ASSUME TypeInv, HandedOver, NEW x \in Calls, NEW r \in Requests, call' = [call EXCEPT ![x] = r],
         UNCHANGED <<teacher, overtaken, stint>>,
         r.at = "assigning" => r.role = "tro_giang",
         r.at \in Holding => \A y \in Calls \ {x} : ~(call[y].at \in Holding /\ call[y].center = r.center),
         r.at = "closed" => \A s \in Primaries(r.class) : stint[s].person # r.person => s \in r.stints
  PROVE  HandedOver'
<1>1. call'[x] = r /\ \A y \in Calls : y # x => call'[y] = call[y]
  BY CallStep DEF TypeInv
<1>2. PrimaryIsTeacher'
  BY DEF HandedOver, PrimaryIsTeacher
<1>3. \A z, y \in Calls : call'[z].at \in Holding /\ call'[y].at \in Holding
                            /\ call'[z].center = call'[y].center => z = y
  BY <1>1 DEF HandedOver
<1>4. \A y \in Calls : call'[y].at = "assigning" => call'[y].role = "tro_giang"
  BY <1>1 DEF HandedOver
<1>5. ASSUME NEW y \in Calls, call'[y].at = "closed", NEW s \in Stints, stint[s].class = call'[y].class,
             stint[s].role = "giao_vien", stint[s].person # call'[y].person
      PROVE  s \in call'[y].stints
  BY <1>1, <1>5 DEF HandedOver, Primaries
<1> QED
  BY <1>2, <1>3, <1>4, <1>5 DEF HandedOver, Primaries

LEMMA InvitingHands == TypeInv /\ HandedOver /\ Inviting => HandedOver'
<1> SUFFICES ASSUME TypeInv, HandedOver, Inviting PROVE HandedOver'
  OBVIOUS
<1>1. UNCHANGED <<teacher, overtaken, stint>>
  BY DEF Inviting, Expire, Revoke, Create, Accept
<1>2. ASSUME NEW x \in Calls, NEW i \in Invites, Accept(x, i)
      PROVE  call'[x].at = "invited" /\ \A y \in Calls : y # x => call'[y] = call[y]
  BY <1>2 DEF Accept, Idle, TypeInv, TypeOK
<1>3. call' = call \/ \E x \in Calls, i \in Invites : Accept(x, i)
  BY DEF Inviting, Expire, Revoke, Create
<1>4. \A y \in Calls : call'[y].at \in Holding \cup {"assigning"} => call'[y] = call[y]
  BY <1>2, <1>3 DEF Holding
<1> QED
  BY <1>1, <1>4, HandsOff

LEMMA JoiningHands == TypeInv /\ HandedOver /\ Joining => HandedOver'
<1> SUFFICES ASSUME TypeInv, HandedOver, NEW x \in Calls, FindByPhone(x) \/ CreateInCenter(x) \/ Reactivate(x)
             PROVE  HandedOver'
  BY DEF Joining
<1>1. UNCHANGED <<teacher, overtaken>>
  BY DEF FindByPhone, CreateInCenter, Reactivate, Joins, Reject
<1>2. \A s \in Stints : stint'[s] = stint[s] \/ stint'[s].role # "giao_vien"
  BY DEF FindByPhone, CreateInCenter, Reactivate, Joins, Reject, NoStint, None
<1>3. Finish(x) \/ \E at \in {"creating", "reactivating"} : Step(x, at)
  BY DEF FindByPhone, CreateInCenter, Reactivate, Joins, Reject
<1>4. ASSUME NEW at \in {"creating", "reactivating"}, Step(x, at)
      PROVE  \A y \in Calls : call'[y].at \in Holding \cup {"assigning"} => call'[y] = call[y]
  <2>1. at \in Stages
    BY DEF Stages
  <2>2. call'[x].at = at /\ \A y \in Calls : y # x => call'[y] = call[y]
    BY <1>4, <2>1 DEF Step, TypeInv, TypeOK, Requests
  <2> QED
    BY <2>2 DEF Holding
<1> QED
  BY <1>1, <1>2, <1>3, <1>4, FinishHands, HandsOff

LEMMA RemovingHands == TypeInv /\ HandedOver /\ Removing => HandedOver'
<1> SUFFICES ASSUME TypeInv, HandedOver, NEW x \in Calls,
                    \/ \E c \in Centers, p \in Persons : RemoveMember(x, c, p)
                    \/ CancelOpenForMember(x) \/ CancelsOpen(x) \/ CloseMembership(x) \/ Disable(x)
             PROVE  HandedOver'
  BY DEF Removing
<1>0. call[x] \in Requests /\ call \in [Calls -> Requests]
  BY DEF TypeInv, TypeOK
<1>1. UNCHANGED <<teacher, overtaken>>
  BY DEF RemoveMember, CancelOpenForMember, CancelsOpen, CloseMembership, Disable, Removes, Reject
<1>2. \A s \in Stints : stint'[s] = stint[s] \/ stint'[s].role # "giao_vien"
  <2>1. NoStint.role # "giao_vien"
    BY DEF NoStint, None
  <2>2. CASE stint' = stint
    BY <2>2
  <2>3. CASE Removes(x)
    BY <2>1, <2>3 DEF Removes
  <2> QED
    BY <2>2, <2>3 DEF RemoveMember, CancelOpenForMember, CancelsOpen, CloseMembership, Disable, Reject
<1>3. CASE Disable(x)
  BY <1>1, <1>2, <1>3, FinishHands DEF Disable, Removes, Reject
<1>4. ASSUME ~Disable(x)
      PROVE  call'[x].at \in RemoveStages /\ \A y \in Calls : y # x => call'[y] = call[y]
  <2>1. ASSUME NEW c \in Centers, NEW p \in Persons, RemoveMember(x, c, p)
        PROVE  call'[x].at = "judged" /\ \A y \in Calls : y # x => call'[y] = call[y]
    BY <1>0, <2>1 DEF RemoveMember, Idle
  <2>2. CASE CancelOpenForMember(x)
    BY <1>0, <2>2 DEF CancelOpenForMember, RemoveStages, Requests
  <2>3. CASE CancelsOpen(x)
    BY <1>0, <2>3 DEF CancelsOpen, RemoveStages, Requests
  <2>4. CASE CloseMembership(x)
    BY <1>0, <2>4 DEF CloseMembership, RemoveStages, Requests
  <2> QED
    BY <1>4, <2>1, <2>2, <2>3, <2>4 DEF RemoveStages
<1>5. CASE ~Disable(x)
  <2>1. \A y \in Calls : call'[y].at \in Holding \cup {"assigning"} => call'[y] = call[y]
    BY <1>4, <1>5 DEF Holding, RemoveStages
  <2> QED
    BY <1>1, <1>2, <2>1, HandsOff
<1> QED
  BY <1>3, <1>5

LEMMA ProposingHands == TypeInv /\ HandedOver /\ Proposing => HandedOver'
<1> SUFFICES ASSUME TypeInv, HandedOver, NEW x \in Calls,
                    \/ \E k \in Classes, p \in Persons, role \in Roles : Send(x, k, p, role)
                    \/ \E o \in Offers :
                         \/ SendInserts(x, o) \/ Confirm(x, o)
                         \/ \E to \in {"accepted", "declined", "cancelled"} : Answer(x, o, to)
                    \/ Transition(x) \/ ConfirmTransition(x)
             PROVE  HandedOver'
  BY DEF Proposing
<1>0. call[x] \in Requests /\ call \in [Calls -> Requests]
  BY DEF TypeInv, TypeOK
<1>1. UNCHANGED <<teacher, overtaken, stint>>
  BY DEF Send, SendInserts, Confirm, Answer, Transition, ConfirmTransition, Reject
<1>2. CASE Finish(x)
  BY <1>1, <1>2, FinishHands
<1>3. ASSUME NEW k \in Classes, NEW p \in Persons, NEW role \in Roles, Send(x, k, p, role)
      PROVE  call'[x].at = "proposed" /\ \A y \in Calls : y # x => call'[y] = call[y]
  BY <1>0, <1>3 DEF Send, Idle
<1>4. ASSUME NEW o \in Offers, NEW to \in {"accepted", "declined", "cancelled"}, Answer(x, o, to)
      PROVE  call'[x].at = "answering" /\ \A y \in Calls : y # x => call'[y] = call[y]
  BY <1>0, <1>4 DEF Answer, Idle
<1>5. ASSUME NEW o \in Offers, Confirm(x, o)
      PROVE  call'[x].at = "confirming" /\ \A y \in Calls : y # x => call'[y] = call[y]
  BY <1>0, <1>5 DEF Confirm, Idle
<1>6. ASSUME ConfirmTransition(x), ~Finish(x)
      PROVE  call'[x].at = "appointing" /\ \A y \in Calls : y # x => call'[y] = call[y]
  BY <1>0, <1>6 DEF ConfirmTransition, Reject, Requests
<1>7. CASE ~Finish(x)
  <2>1. call'[x].at \in {"proposed", "answering", "confirming", "appointing"}
        /\ \A y \in Calls : y # x => call'[y] = call[y]
    BY <1>3, <1>4, <1>5, <1>6, <1>7 DEF SendInserts, Transition, Reject
  <2>2. \A y \in Calls : call'[y].at \in Holding \cup {"assigning"} => call'[y] = call[y]
    BY <2>1 DEF Holding
  <2> QED
    BY <1>1, <2>2, HandsOff
<1> QED
  BY <1>2, <1>7

\* The commit of a handoff.
LEMMA SyncHands ==
  ASSUME TypeInv, HandedOver, NEW x \in Calls, NEW s \in Stints, SyncInserts(x, s), ~Reject(x)
  PROVE  HandedOver'
<1> DEFINE p == call[x].person
<1> DEFINE k == call[x].class
<1> DEFINE gone == call[x].stints
<1>0. k \in Classes /\ p \in Persons /\ call[x].at \in {"closed", "skipped"}
      /\ call[x].center = CenterOf[k]
  BY DEF SyncInserts, TypeInv, Shaped, AppointStages
<1>1. /\ Finish(x)
      /\ teacher' = IF p = call[x].seen THEN teacher ELSE [teacher EXCEPT ![k] = p]
      /\ overtaken' = IF teacher'[k] = p /\ call[x].at = "closed" THEN overtaken \ {k} ELSE overtaken \cup {k}
  BY DEF SyncInserts, Commits
<1>2. \A t \in Stints : stint'[t].role = "giao_vien" =>
        \/ t \notin gone /\ stint'[t] = stint[t]
        \/ stint'[t].class = k /\ stint'[t].person = p
  <2> DEFINE closed == [t \in Stints |-> IF t \in gone THEN NoStint ELSE stint[t]]
  <2>1. closed \in [Stints -> {stint[t] : t \in Stints} \cup {NoStint}]
    OBVIOUS
  <2>2. stint' = closed \/ stint' = [closed EXCEPT ![s] = [class |-> k, person |-> p, role |-> "giao_vien"]]
    BY DEF SyncInserts, Synced
  <2>3. \A t \in Stints : closed[t].role = "giao_vien" => t \notin gone /\ closed[t] = stint[t]
    BY DEF NoStint, None
  <2> HIDE DEF closed
  <2> QED
    BY <2>1, <2>2, <2>3
<1>3. call'[x] = Done /\ \A y \in Calls : y # x => call'[y] = call[y]
  BY <1>1, CallStep, IdleShaped DEF Finish, TypeInv
<1>4. Done.at = "done"
  BY DEF Done, Idle
<1>5. PrimaryIsTeacher'
  <2>1. ASSUME NEW j \in Classes \ overtaken', NEW t \in Stints,
               stint'[t].class = j, stint'[t].role = "giao_vien"
        PROVE  stint'[t].person = teacher'[j]
    <3>1. CASE j # k
      <4>1. j \notin overtaken /\ teacher'[j] = teacher[j]
        BY <1>0, <1>1, <2>1, <3>1 DEF TypeInv, TypeOK
      <4>2. stint'[t] = stint[t]
        BY <1>2, <2>1, <3>1
      <4> QED
        BY <2>1, <4>1, <4>2 DEF HandedOver, PrimaryIsTeacher
    <3>2. CASE j = k
      <4>1. teacher'[k] = p /\ call[x].at = "closed"
        BY <1>1, <2>1, <3>2
      <4>2. CASE t \notin gone /\ stint'[t] = stint[t]
        BY <2>1, <3>2, <4>1, <4>2 DEF HandedOver, Primaries
      <4> QED
        BY <1>2, <2>1, <3>2, <4>1, <4>2
    <3> QED
      BY <3>1, <3>2
  <2> QED
    BY <2>1 DEF PrimaryIsTeacher
<1>6. \A z, y \in Calls : call'[z].at \in Holding /\ call'[y].at \in Holding
                            /\ call'[z].center = call'[y].center => z = y
  BY <1>3, <1>4 DEF HandedOver, Holding
<1>7. \A y \in Calls : call'[y].at = "assigning" => call'[y].role = "tro_giang"
  BY <1>3, <1>4 DEF HandedOver
<1>8. ASSUME NEW y \in Calls, call'[y].at = "closed", NEW t \in Stints, stint'[t].class = call'[y].class,
             stint'[t].role = "giao_vien", stint'[t].person # call'[y].person
      PROVE  t \in call'[y].stints
  <2>1. y # x /\ call'[y] = call[y] /\ call[y].at = "closed"
    BY <1>3, <1>4, <1>8
  <2>2. call[y].center = CenterOf[call[y].class]
    BY <2>1 DEF TypeInv, Shaped, AppointStages
  <2>3. call[y].class # k
    BY <1>0, <2>1, <2>2 DEF HandedOver, Holding
  <2>4. stint'[t] = stint[t]
    BY <1>2, <1>8, <2>1, <2>3
  <2> QED
    BY <1>8, <2>1, <2>4 DEF HandedOver, Primaries
<1> QED
  BY <1>5, <1>6, <1>7, <1>8 DEF HandedOver, Primaries

LEMMA AppointingHands == TypeInv /\ HandedOver /\ Appointing => HandedOver'
<1> SUFFICES ASSUME TypeInv, HandedOver, Appointing
             PROVE  HandedOver'
  OBVIOUS
<1>1. ASSUME NEW x \in Calls, NEW k \in Classes, NEW p \in Persons, Assign(x, k, p)
      PROVE  HandedOver'
  <2> DEFINE r == [Idle EXCEPT !.at = "assigning", !.op = "assign", !.center = CenterOf[k],
                               !.class = k, !.person = p, !.role = "tro_giang"]
  <2>1. r \in Requests
    BY StaffingConstants DEF None, Idle, Requests, Stages, OfferStatus, Roles
  <2>2. r.at = "assigning" /\ r.role = "tro_giang"
    BY DEF Idle
  <2>3. call' = [call EXCEPT ![x] = r] /\ UNCHANGED <<teacher, overtaken, stint>>
    BY <1>1 DEF Assign
  <2> HIDE DEF r
  <2> QED
    BY <2>1, <2>2, <2>3, HandsOn DEF Holding
<1>2. ASSUME NEW x \in Calls, NEW k \in Classes, NEW p \in Persons, Reassign(x, k, p)
      PROVE  HandedOver'
  <2>1. call'[x].at = "judging" /\ \A y \in Calls : y # x => call'[y] = call[y]
    BY <1>2 DEF Reassign, Idle, TypeInv, TypeOK
  <2>2. \A y \in Calls : call'[y].at \in Holding \cup {"assigning"} => call'[y] = call[y]
    BY <2>1 DEF Holding
  <2> QED
    BY <1>2, <2>2, HandsOff DEF Reassign
<1>3. ASSUME NEW x \in Calls, ConfirmAssigns(x)
      PROVE  HandedOver'
  <2> DEFINE r == [call[x] EXCEPT !.at = "assigning"]
  <2>1. CASE Finish(x)
    BY <1>3, <2>1, FinishHands DEF ConfirmAssigns
  <2>2. CASE Step(x, "assigning")
    <3>1. "assigning" \in Stages
      BY DEF Stages
    <3>2. r \in Requests /\ call' = [call EXCEPT ![x] = r]
      BY <2>2, <3>1, StepMoves
    <3>3. r.at = "assigning" /\ r.role = "tro_giang"
      BY <1>3 DEF ConfirmAssigns, TypeInv, TypeOK, Requests
    <3>4. UNCHANGED <<teacher, overtaken, stint>>
      BY <1>3 DEF ConfirmAssigns
    <3> HIDE DEF r
    <3> QED
      BY <3>2, <3>3, <3>4, HandsOn DEF Holding
  <2> QED
    BY <1>3, <2>1, <2>2 DEF ConfirmAssigns
<1>4. ASSUME NEW x \in Calls, ConfirmReassigns(x)
      PROVE  HandedOver'
  <2>1. CASE Finish(x)
    BY <1>4, <2>1, FinishHands DEF ConfirmReassigns
  <2>2. CASE ~Finish(x)
    <3>1. call[x] \in Requests /\ call \in [Calls -> Requests]
      BY DEF TypeInv, TypeOK
    <3>2. call'[x].at = "judging" /\ \A y \in Calls : y # x => call'[y] = call[y]
      <4>1. call' = [call EXCEPT ![x] = [call[x] EXCEPT !.at = "judging", !.seen = teacher[call[x].class]]]
        BY <1>4, <2>2, <3>1 DEF ConfirmReassigns, Finish
      <4> QED
        BY <3>1, <4>1 DEF Requests
    <3>3. \A y \in Calls : call'[y].at \in Holding \cup {"assigning"} => call'[y] = call[y]
      BY <3>2 DEF Holding
    <3> QED
      BY <1>4, <3>3, HandsOff DEF ConfirmReassigns
  <2> QED
    BY <2>1, <2>2
<1>5. ASSUME NEW x \in Calls, TryLockCenter(x)
      PROVE  HandedOver'
  <2> DEFINE r == [call[x] EXCEPT !.at = "syncing"]
  <2>1. CASE Finish(x)
    BY <1>5, <2>1, FinishHands DEF TryLockCenter
  <2>2. CASE ~Finish(x)
    <3>1. "syncing" \in Stages
      BY DEF Stages
    <3>2. r \in Requests /\ call' = [call EXCEPT ![x] = r]
      BY <1>5, <2>2, <3>1, StepMoves DEF TryLockCenter
    <3>3. r.at = "syncing" /\ r.center = call[x].center
      BY DEF TypeInv, TypeOK, Requests
    <3>4. \A y \in Calls : ~(call[y].at \in Holding /\ call[y].center = call[x].center)
      BY <1>5, <2>2 DEF TryLockCenter, HoldsCenter, Holding
    <3>5. UNCHANGED <<teacher, overtaken, stint>>
      BY <1>5 DEF TryLockCenter
    <3> HIDE DEF r
    <3> QED
      BY <3>2, <3>3, <3>4, <3>5, HandsOn
  <2> QED
    BY <2>1, <2>2
<1>6. ASSUME NEW x \in Calls, SyncCloses(x)
      PROVE  HandedOver'
  <2>0. call[x] \in Requests /\ call[x].at = "syncing"
    BY <1>6 DEF SyncCloses, TypeInv, TypeOK
  <2> DEFINE S == Contradicting(call[x].person, call[x].class)
  <2> DEFINE a == [call[x] EXCEPT !.at = "closed", !.stints = S]
  <2> DEFINE b == [call[x] EXCEPT !.at = "skipped"]
  <2>1. S \in SUBSET Stints
    BY DEF Contradicting, Active
  <2>2. \A t \in Primaries(call[x].class) : stint[t].person # call[x].person => t \in S
    BY DEF Primaries, Contradicting, Active, NoStint, None
  <2>3. call' = [call EXCEPT ![x] = a] \/ call' = [call EXCEPT ![x] = b]
    BY <1>6, <2>0 DEF SyncCloses, Synced, TypeInv, TypeOK
  <2> HIDE DEF S
  <2>4. /\ a \in Requests /\ a.at = "closed" /\ a.center = call[x].center /\ a.class = call[x].class
        /\ a.person = call[x].person /\ a.stints = S
    BY <2>0, <2>1, ZenonT(60) DEF Requests, Stages
  <2>5. b \in Requests /\ b.at = "skipped" /\ b.center = call[x].center
    BY <2>0 DEF Requests, Stages
  <2>6. \A y \in Calls \ {x} : ~(call[y].at \in Holding /\ call[y].center = call[x].center)
    BY <2>0 DEF HandedOver, Holding
  <2>7. UNCHANGED <<teacher, overtaken, stint>>
    BY <1>6 DEF SyncCloses
  <2> HIDE DEF a, b
  <2>8. CASE call' = [call EXCEPT ![x] = a]
    BY <2>2, <2>4, <2>6, <2>7, <2>8, HandsOn
  <2>9. CASE call' = [call EXCEPT ![x] = b]
    BY <2>5, <2>6, <2>7, <2>9, HandsOn
  <2> QED
    BY <2>3, <2>8, <2>9
<1>7. ASSUME NEW x \in Calls, NEW s \in Stints, AssignInserts(x, s), ~Reject(x)
      PROVE  HandedOver'
  <2>1. call[x].role = "tro_giang"
    BY <1>7 DEF AssignInserts, HandedOver
  <2>2. \A t \in Stints : stint'[t] = stint[t] \/ stint'[t].role # "giao_vien"
    BY <1>7, <2>1 DEF AssignInserts, TypeInv, TypeOK
  <2>3. Finish(x) /\ UNCHANGED <<teacher, overtaken>>
    BY <1>7 DEF AssignInserts
  <2> QED
    BY <2>2, <2>3, FinishHands
<1>8. ASSUME NEW x \in Calls, NEW s \in Stints, SyncInserts(x, s), ~Reject(x)
      PROVE  HandedOver'
  BY <1>8, SyncHands
<1>9. ASSUME NEW s \in Stints, Remove(s)
      PROVE  HandedOver'
  <2>1. \A t \in Stints : stint'[t] = stint[t] \/ stint'[t].role # "giao_vien"
    BY <1>9 DEF Remove, TypeInv, TypeOK, NoStint, None
  <2>2. UNCHANGED <<teacher, overtaken, call>>
    BY <1>9 DEF Remove
  <2> QED
    BY <2>1, <2>2, HandsOff
<1>10. ASSUME NEW x \in Calls, Reject(x)
       PROVE  HandedOver'
  BY <1>10, FinishHands DEF Reject
<1> QED
  BY <1>1, <1>2, <1>3, <1>4, <1>5, <1>6, <1>7, <1>8, <1>9, <1>10 DEF Appointing

LEMMA HandsKept == TypeInv /\ HandedOver /\ [Next]_vars => HandedOver'
<1> SUFFICES ASSUME TypeInv, HandedOver, [Next]_vars PROVE HandedOver'
  OBVIOUS
<1>1. CASE UNCHANGED vars
  BY <1>1, HandsOff DEF vars
<1> QED
  BY <1>1, InvitingHands, JoiningHands, RemovingHands, ProposingHands, AppointingHands DEF Next

\* The active primary stint of a class is that of the teacher the class names, unless the
\* class's last handoff relied on a teacher or a membership that was no longer so.
THEOREM PrimaryStintNamed == Spec => []PrimaryIsTeacher
<1>1. Init => HandedOver
  <2> SUFFICES ASSUME Init PROVE HandedOver
    OBVIOUS
  <2>1. \A x \in Calls : call[x].at = "new"
    BY DEF Init, Idle
  <2>2. PrimaryIsTeacher
    BY StaffingConstants DEF Init, PrimaryIsTeacher, NoStint, None
  <2> QED
    BY <2>1, <2>2 DEF HandedOver, Holding
<1> QED
  BY <1>1, InitTypes, TypesKept, HandsKept, PTL DEF Spec, HandedOver
=============================================================================
