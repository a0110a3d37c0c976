------------------------------ MODULE Onboarding ------------------------------
(***************************************************************************)
(* The onboarding record of one merchant: what the merchant submits, the   *)
(* profile it keeps up, and the reviews of administrators.  Every call     *)
(* reads the row and saves its copy: the save compares the copy with the   *)
(* row once more, and updates the columns that differ.  The columns that   *)
(* no rule is about (addresses, documents, website) are left out.          *)
(***************************************************************************)
EXTENDS Naturals

CONSTANTS
    Names,        \* legal names, or countries
    Workers,      \* requests being served at a time
    MaxCalls      \* bound: requests in all

OnboardingStatus == {"pending", "under_review", "approved", "rejected"}
Columns == {"status", "legalName", "requiresReReview"}
Unnamed == "null"
NoRow == [status |-> "none", legalName |-> Unnamed, requiresReReview |-> FALSE]
Default == [NoRow EXCEPT !.status = "pending"]

VARIABLES
    row,        \* the row of merchant_onboardings, or NoRow
    work,       \* per worker, the call it serves
    version,    \* history: saves so far
    lost,       \* history: saves that were overwritten unseen
    crossed,    \* history: two saves each compared before the other had updated
    approved,   \* history: the legal names that approvals had read
    named,      \* history: the legal name that the merchant gave last
    calls
vars == <<row, work, version, lost, crossed, approved, named, calls>>

Idle == [pc |-> "idle"]
Row == [status : OnboardingStatus, legalName : Names \cup {Unnamed}, requiresReReview : BOOLEAN]

TypeOK ==
    /\ row \in Row \cup {NoRow}
    /\ \A w \in Workers : work[w].pc \in {"idle", "saving", "updating"}
    /\ \A w \in Workers : work[w].pc /= "idle" => work[w].copy \in Row
    /\ lost \in 0 .. MaxCalls * MaxCalls /\ calls \in 0 .. MaxCalls
    /\ approved \subseteq Names \cup {Unnamed} /\ named \in Names \cup {Unnamed}

Init ==
    /\ row = NoRow
    /\ work = [w \in Workers |-> Idle]
    /\ version = 0 /\ lost = 0 /\ crossed = FALSE
    /\ approved = {} /\ named = Unnamed
    /\ calls = 0

-----------------------------------------------------------------------------
\* submitBusinessInfo and submitDocuments
Submitted(copy) == [copy EXCEPT !.status = "pending"]

\* review
Reviewed(copy, status) == [copy EXCEPT !.status = status]

\* an approved merchant's new name is flagged and the approval stands
RenamedApproved(copy, name) ==
    IF name = copy.legalName THEN copy
    ELSE [copy EXCEPT !.legalName = name, !.requiresReReview = TRUE]

\* updateProfile: a change of the legal name or the country asks for a review
Renamed(copy, name) ==
    IF name = copy.legalName THEN copy
    ELSE [status |-> IF copy.status = "approved" THEN "under_review" ELSE copy.status,
          legalName |-> name, requiresReReview |-> TRUE]

\* findOneBy: the row, or a new entity if the call makes one
Found == IF row = NoRow THEN Default ELSE row

\* a call has read the row and made its copy
Begin(w, op, copy) ==
    /\ work[w] = Idle
    /\ calls < MaxCalls /\ calls' = calls + 1
    /\ work' = [work EXCEPT ![w] = [pc |-> "saving", op |-> op, copy |-> copy,
                                    new |-> row = NoRow, version |-> version]]
    /\ UNCHANGED <<row, version, lost, crossed, approved, named>>

Submit(w) == Begin(w, "submit", Submitted(Found))
Review(w) ==
    /\ row /= NoRow
    /\ \E status \in OnboardingStatus : Begin(w, "review", Reviewed(row, status))
UpdateProfile(w) == \E name \in Names : Begin(w, "rename", Renamed(Found, name))

\* getStatus and getProfile of a merchant that has no record yet
Read(w) == row = NoRow /\ Begin(w, "read", Default)

\* What the histories note of a save.
Noted(r) ==
    /\ version' = version + 1
    /\ lost' = lost + (version - r.version)
    /\ approved' = IF r.op = "review" /\ r.copy.status = "approved" THEN approved \cup {r.copy.legalName}
                   ELSE approved
    /\ named' = IF r.op = "rename" THEN r.copy.legalName ELSE named

(* save of a new entity: an INSERT, which fails if the merchant has a      *)
(* record by then.                                                         *)
Insert(w) ==
    /\ work[w].pc = "saving" /\ work[w].new
    /\ IF row = NoRow
       THEN row' = work[w].copy /\ Noted(work[w])
       ELSE UNCHANGED <<row, version, lost, approved, named>>
    /\ work' = [work EXCEPT ![w] = Idle]
    /\ UNCHANGED <<crossed, calls>>

\* save, the first half: a SELECT, and the columns in which the copy differs
Compare(w) ==
    /\ work[w].pc = "saving" /\ ~work[w].new
    /\ work' = [work EXCEPT ![w] = [pc |-> "updating", op |-> @.op, copy |-> @.copy, version |-> @.version,
                    columns |-> {c \in Columns : work[w].copy[c] /= row[c]}]]
    /\ crossed' = (crossed \/ \E v \in Workers : work[v].pc = "updating")
    /\ UNCHANGED <<row, version, lost, approved, named, calls>>

\* the second half: the UPDATE of those columns
Update(w) ==
    /\ work[w].pc = "updating"
    /\ LET r == work[w]
       IN  /\ row' = [c \in Columns |-> IF c \in r.columns THEN r.copy[c] ELSE row[c]]
           /\ Noted(r)
    /\ work' = [work EXCEPT ![w] = Idle]
    /\ UNCHANGED <<crossed, calls>>

Next == \E w \in Workers :
    \/ Submit(w) \/ Review(w) \/ UpdateProfile(w) \/ Read(w)
    \/ Insert(w) \/ Compare(w) \/ Update(w)

Spec == Init /\ [][Next]_vars

-----------------------------------------------------------------------------
(* "Changes to legalName or country trigger re-review"                     *)
(* (merchants.service.ts:162): an approved merchant has a legal name that  *)
(* an approval has read, and one with a name is flagged, though calls      *)
(* overlap and save stale copies, but for saves that crossed half-way; and *)
(* the merchant has the name it gave last, unless a save overwrote another *)
(* (onboarding.service.ts:26-90, merchants.service.ts:135-269).            *)
ReviewStands ==
    /\ ~crossed /\ row.status = "approved" => row.legalName \in approved
    /\ ~crossed /\ row.legalName /= Unnamed => row.requiresReReview
    /\ lost = 0 => row.legalName = named

-----------------------------------------------------------------------------
(* The inductive invariant behind ReviewStands.                            *)

Sound(r, names) ==
    /\ r.status = "approved" => r.legalName \in names
    /\ r.legalName /= Unnamed => r.requiresReReview = TRUE

\* A call that has read the row and not saved: what it read is the row until the
\* next save, and only an approval saves a status that no approval has noted.
Pending(w) ==
    LET r == work[w]
    IN  /\ r.version \in Nat /\ r.version <= version
        /\ r.copy \in Row
        /\ r.version = version /\ r.op /= "rename" => r.copy.legalName = row.legalName
        /\ ~crossed => Sound(r.copy, IF r.op = "review" THEN approved \cup {r.copy.legalName} ELSE approved)

\* Unless saves cross, the one that is half-way has compared with the row there is.
Halfway(w) ==
    LET r == work[w]
    IN  /\ row /= NoRow
        /\ r.version = version => \A c \in Columns : c \in r.columns \/ r.copy[c] = row[c]
        /\ ~crossed => /\ \A c \in Columns : c \in r.columns \/ r.copy[c] = row[c]
                       /\ \A v \in Workers : work[v].pc = "updating" => v = w

StandsInv ==
    /\ version \in Nat /\ lost \in Nat /\ DOMAIN work = Workers
    /\ row \in Row \cup {NoRow}
    /\ \A w \in Workers :
         \/ work[w] = Idle
         \/ work[w].pc = "saving" /\ Pending(w) /\ (~work[w].new => row /= NoRow)
         \/ work[w].pc = "updating" /\ Pending(w) /\ Halfway(w)
    /\ ~crossed => Sound(row, approved)
    /\ lost = 0 => row.legalName = named
===============================================================================
