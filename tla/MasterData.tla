------------------------------- MODULE MasterData -------------------------------
(***************************************************************************)
(* Master data, controlled revisions and the release of work orders:       *)
(* repositories/master_data.py with core/phase2_schema.py.  No request     *)
(* locks what it reads.  transition_revision reads, supersedes and         *)
(* activates in three steps, release_work_order reads one bound revision   *)
(* after the other; what they wrote becomes visible when they commit.      *)
(***************************************************************************)
EXTENDS DataPlatform

CONSTANTS
    Revisions,      \* controlled revisions
    Kind,           \* what a revision revises: "bom", "routing" or "document"
    Works,          \* work-order codes
    Quals,          \* qualifications that can be issued: [from, to, level]
    LevelMin,       \* level_min of the skill
    RequiredLevel   \* required_skill_level of the routing's operation

ASSUME MasterDataAssumption ==
    /\ IsFiniteSet(Revisions)
    /\ Kind \in [Revisions -> {"bom", "routing", "document"}]
    /\ LevelMin \in Nat /\ RequiredLevel \in Nat /\ LevelMin <= RequiredLevel

VARIABLES
    rev,       \* status of every revision
    qual,      \* qualifications of the one person
    work,      \* work orders: status and the revisions they bind
    desk,      \* open requests: transitions and releases
    released,  \* history: release audit records per work order
    lapsed,    \* history: a transition activated a revision that had moved on
    crossed    \* history: releases during which a transition committed

revisionVars == <<rev, qual, work, desk, released, lapsed, crossed>>
recordVars == <<platformVars, revisionVars>>

Idle == [op |-> Absent, on |-> Absent, phase |-> Absent, hold |-> {}, blocked |-> {}]
NoWork == [status |-> Absent, revs |-> {}]

-----------------------------------------------------------------------------
(* Masters: an insert names rows that exist; its own code is new *)

Register(code, needs) ==
    /\ code \notin master /\ needs \subseteq master
    /\ master' = master \cup {code}
    /\ UNCHANGED <<telemetryVars, redisVars, objectVars, revisionVars>>

ParentUnit == [enterprise |-> {}, site |-> {"enterprise"}, area |-> {"site"},
               line |-> {"area"}, cell |-> {"line"}]
CreateOrganizationUnit(u) == Register(u, ParentUnit[u])
CreateUom == Register("uom", {})
CreateMaterial == Register("material", {"uom"})
CreateProduct == Register("product", {"material"})
CreateEquipment == Register("equipment", {"cell"})
CreateEquipmentCapability == Register("capability", {"equipment"})
CreateSkill == Register("skill", {})
CreatePersonnel == Register("personnel", {})
CreateCalendar == Register("calendar", {})
CreateShift == Register("shift", {"calendar"})
CreateDocument == Register("document", {})
CreateBom == Register("bom", {"product"})
CreateRouting == Register("routing", {"product"})

\* provision_digital_twin_catalog: units and equipment that are missing, then the signals
ProvisionDigitalTwinCatalog ==
    /\ master' = master \cup DOMAIN ParentUnit \cup {"equipment"}
    /\ signal' = TRUE
    /\ UNCHANGED <<batch, receipt, raw, hourly, ingest, retention, clock, stored, gone, late,
                   redone, redisVars, objectVars, revisionVars>>

CreateQualification(q) ==
    /\ {"personnel", "skill"} \subseteq master /\ q.level >= LevelMin
    /\ q \notin qual /\ qual' = qual \cup {q}
    /\ UNCHANGED <<platformVars, rev, work, desk, released, lapsed, crossed>>

-----------------------------------------------------------------------------
(* Revisions *)

\* What the content of a revision refers to
References(r) == CASE Kind[r] = "bom" -> {"bom", "material", "uom"}
                   [] Kind[r] = "routing" -> {"routing", "capability", "skill", "document"}
                   [] Kind[r] = "document" -> {"document"}

CreateRevision(r) ==
    /\ rev[r] = Absent /\ References(r) \subseteq master
    /\ rev' = [rev EXCEPT ![r] = "draft"]
    /\ UNCHANGED <<platformVars, qual, work, desk, released, lapsed, crossed>>

\* create_document_revision of an object that was read back intact
CreateObjectRevision(r) ==
    /\ Kind[r] = "document" /\ rev[r] = Absent /\ References(r) \subseteq master
    /\ Available
    /\ rev' = [rev EXCEPT ![r] = "draft"]
    /\ UNCHANGED <<platformVars, qual, work, desk, released, lapsed, crossed>>

Siblings(r) == {s \in Revisions : Kind[s] = Kind[r] /\ s # r}
HeldByOthers(c) == UNION {desk[d].hold : d \in Clients \ {c}}

\* transition_revision reads the revision; a repeated request answers at once
BeginTransition(c, r, to) ==
    /\ desk[c] = Idle
    /\ rev[r] = IF to = "approved" THEN "draft" ELSE "approved"
    /\ desk' = [desk EXCEPT ![c] = [Idle EXCEPT !.op = to, !.on = r, !.phase = "read"]]
    /\ UNCHANGED <<platformVars, rev, qual, work, released, lapsed, crossed>>

\* Of two approvals the second finds no draft, and answers the same
CommitApprove(c) ==
    LET r == desk[c].on IN
    /\ desk[c].op = "approved"
    /\ rev' = IF rev[r] = "draft" THEN [rev EXCEPT ![r] = "approved"] ELSE rev
    /\ desk' = [desk EXCEPT ![c] = Idle]
    /\ UNCHANGED <<platformVars, qual, work, released, lapsed, crossed>>

\* UPDATE ... SET status='superseded' locks the effective siblings.  One that another
\* request holds is waited for, and is no longer effective afterwards; the revision that
\* replaced it is not in this statement's snapshot.
Supersede(c) ==
    LET effective == {s \in Siblings(desk[c].on) : rev[s] = "effective"} IN
    /\ desk[c].op = "effective" /\ desk[c].phase = "read"
    /\ desk' = [desk EXCEPT ![c].phase = "superseded",
                            ![c].hold = effective \ HeldByOthers(c),
                            ![c].blocked = effective \cap HeldByOthers(c)]
    /\ UNCHANGED <<platformVars, rev, qual, work, released, lapsed, crossed>>

\* The partial unique index.  Mutant: it is missing.
NoUniqueEffective(c) == TRUE
UniqueEffective(c) ==
    rev[desk[c].on] = "approved"
       => \A s \in Siblings(desk[c].on) : rev[s] = "effective" => s \in desk[c].hold

\* UPDATE ... SET status='effective' WHERE status='approved', and the commit.  The number
\* of rows it changed is not looked at.
CommitEffective(c) ==
    LET r == desk[c].on IN
    /\ desk[c].phase = "superseded" /\ desk[c].blocked \cap HeldByOthers(c) = {}
    /\ UniqueEffective(c)
    /\ rev' = [s \in Revisions |->
                 IF s = r /\ rev[r] = "approved" THEN "effective"
                 ELSE IF s \in desk[c].hold THEN "superseded" ELSE rev[s]]
    /\ lapsed' = (lapsed \/ rev[r] # "approved")
    /\ crossed' = crossed \cup {d \in Clients : desk[d].op = "release"}
    /\ desk' = [desk EXCEPT ![c] = Idle]
    /\ UNCHANGED <<platformVars, qual, work, released>>

\* The index or the connection fails the request: nothing it wrote remains
RollbackRequest(c) ==
    /\ desk[c] # Idle
    /\ desk' = [desk EXCEPT ![c] = Idle]
    /\ UNCHANGED <<platformVars, rev, qual, work, released, lapsed, crossed>>

-----------------------------------------------------------------------------
(* Work orders *)

CreateWorkOrder(w, revs) ==
    /\ work[w] = NoWork
    /\ {"product", "calendar", "shift", "equipment", "personnel"} \subseteq master
    /\ \A r \in revs : rev[r] # Absent
    /\ \A k \in {"bom", "routing"} : Cardinality({r \in revs : Kind[r] = k}) = 1
    /\ work' = [work EXCEPT ![w] = [status |-> "draft", revs |-> revs]]
    /\ UNCHANGED <<platformVars, rev, qual, desk, released, lapsed, crossed>>

BeginRelease(c, w) ==
    /\ desk[c] = Idle /\ work[w].status = "draft"
    /\ desk' = [desk EXCEPT ![c] = [Idle EXCEPT !.op = "release", !.on = w, !.phase = "bom"]]
    /\ crossed' = crossed \ {c}
    /\ UNCHANGED <<platformVars, rev, qual, work, released, lapsed>>

\* Mutant: the bound documents are not read.
SkipDocuments == [bom |-> "routing", routing |-> "people", document |-> "people"]
AfterCheck == [bom |-> "routing", routing |-> "document", document |-> "people"]

\* One kind of bound revision after the other is read and must be effective
CheckBound(c) ==
    LET p == desk[c].phase IN
    /\ desk[c].op = "release" /\ p \in DOMAIN AfterCheck
    /\ \A r \in work[desk[c].on].revs : Kind[r] = p => rev[r] = "effective"
    /\ desk' = [desk EXCEPT ![c].phase = AfterCheck[p]]
    /\ UNCHANGED <<platformVars, rev, qual, work, released, lapsed, crossed>>

Qualified(level) == \E q \in qual : q.level >= level /\ q.from <= clock /\ clock <= q.to

\* Equipment, its capability, a qualified person and a bound document for the operation
CheckOperations(c) ==
    /\ desk[c].op = "release" /\ desk[c].phase = "people"
    /\ {"equipment", "capability"} \subseteq master /\ Qualified(RequiredLevel)
    /\ \E r \in work[desk[c].on].revs : Kind[r] = "document"
    /\ desk' = [desk EXCEPT ![c].phase = "update"]
    /\ UNCHANGED <<platformVars, rev, qual, work, released, lapsed, crossed>>

StillDraft(w) == work[w].status = "draft"

CommitRelease(c) ==
    LET w == desk[c].on IN
    /\ desk[c].op = "release" /\ desk[c].phase = "update" /\ StillDraft(w)
    /\ work' = [work EXCEPT ![w].status = "released"]
    /\ released' = [released EXCEPT ![w] = @ + 1]
    /\ desk' = [desk EXCEPT ![c] = Idle]
    /\ UNCHANGED <<platformVars, rev, qual, lapsed, crossed>>

-----------------------------------------------------------------------------

MasterStep ==
    \/ \E u \in DOMAIN ParentUnit : CreateOrganizationUnit(u)
    \/ CreateUom \/ CreateMaterial \/ CreateProduct \/ CreateEquipment
    \/ CreateEquipmentCapability \/ CreateSkill \/ CreatePersonnel
    \/ CreateCalendar \/ CreateShift \/ CreateDocument \/ CreateBom \/ CreateRouting
    \/ ProvisionDigitalTwinCatalog
    \/ \E q \in Quals : CreateQualification(q)

RevisionStep ==
    \/ \E r \in Revisions : CreateRevision(r) \/ CreateObjectRevision(r)
    \/ \E c \in Clients :
         \/ \E r \in Revisions, to \in {"approved", "effective"} : BeginTransition(c, r, to)
         \/ CommitApprove(c) \/ Supersede(c) \/ CommitEffective(c) \/ RollbackRequest(c)

ReleaseStep ==
    \/ \E w \in Works, revs \in SUBSET Revisions : CreateWorkOrder(w, revs)
    \/ \E c \in Clients : \/ \E w \in Works : BeginRelease(c, w)
                          \/ CheckBound(c) \/ CheckOperations(c) \/ CommitRelease(c)

NothingRevised ==
    /\ work = [w \in Works |-> NoWork]
    /\ desk = [c \in Clients |-> Idle] /\ released = [w \in Works |-> 0]
    /\ lapsed = FALSE /\ crossed = {}

Platform(step) == step /\ UNCHANGED revisionVars

RecordsNext ==
    \/ MasterStep \/ RevisionStep \/ ReleaseStep
    \/ Platform(IngestStep \/ RetentionStep \/ RebuildStep \/ ObjectStep)

-----------------------------------------------------------------------------
(* Properties *)

Effective(k) == {r \in Revisions : Kind[r] = k /\ rev[r] = "effective"}

\* A document, BOM or routing never has two effective revisions, whichever transitions
\* overlap.  It keeps the one it has until another takes its place, unless a late duplicate
\* of a transition supersedes the effective revision for one that had moved on.
OneEffective ==
    \A k \in {"bom", "routing", "document"} :
       /\ Cardinality(Effective(k)) <= 1
       /\ (\E r \in Revisions : Kind[r] = k /\ rev[r] = "superseded")
             => Effective(k) # {} \/ lapsed

\* The tables may hold masters, qualifications and revisions from before
RecordsInit ==
    /\ PlatformInit /\ NothingRevised
    /\ rev \in [Revisions -> {Absent, "draft", "approved", "effective"}] /\ OneEffective

RecordsSpec == RecordsInit /\ [][RecordsNext]_recordVars

\* A work order is released once, however many requests release it at the same time, and
\* what it binds is effective then, unless a transition committed while the release was
\* validating: the update looks only at the order's status.
ReleasedEffective ==
    [][\A c \in Clients :
          desk[c].op = "release" /\ released' # released /\ desk'[c] # desk[c]
             => /\ released[desk[c].on] = 0
                /\ \/ c \in crossed
                   \/ \A r \in work[desk[c].on].revs : rev[r] = "effective"]_recordVars

=============================================================================
