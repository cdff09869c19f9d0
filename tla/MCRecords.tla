------------------------------- MODULE MCRecords -------------------------------
(***************************************************************************)
(* Seven instances in one run, told apart by focus, so that their states     *)
(* add up instead of multiplying:                                          *)
(*   masters    nothing is registered yet;                                 *)
(*   revise     two revisions of a document, three requests;               *)
(*   release    a work order released by two requests, with transitions;   *)
(*   documents  uploads, and a revision that binds the object;             *)
(*   ingest     batches with duplicates and conflicts, two at a time;      *)
(*   retain     samples and aggregation while one retention run is open;   *)
(*   project    rebuilds of the projection.                                *)
(***************************************************************************)
EXTENDS MasterData, TLC

CONSTANTS b1, t1, d1, d2   \* a BOM, a routing and two document revisions

VARIABLE focus

MCKind == (b1 :> "bom") @@ (t1 :> "routing") @@ (d1 :> "document") @@ (d2 :> "document")

Sample(i, seq, at, val) == [id |-> i, seq |-> seq, at |-> at, val |-> val, fits |-> val < 2]
MCBatches ==
    {[id |-> "k1", samples |-> <<Sample("x1", 1, 0, 0)>>],
     [id |-> "k2", samples |-> <<Sample("x2", 2, 1, 0), Sample("x1", 1, 0, 0), Sample("x1", 1, 0, 0)>>],
     [id |-> "k2", samples |-> <<Sample("x3", 1, 1, 2)>>],
     [id |-> "k3", samples |-> <<Sample("x2", 2, 1, 0)>>]}
Plain == {[id |-> "k1", samples |-> <<Sample("x1", 1, 0, 0)>>],
          [id |-> "k3", samples |-> <<Sample("x2", 2, 1, 0)>>]}
MCQuals == {[from |-> 0, to |-> 1, level |-> 1], [from |-> 0, to |-> 1, level |-> 2]}

AllCodes == {"enterprise", "site", "area", "line", "cell", "uom", "material", "product",
             "equipment", "capability", "skill", "personnel", "calendar", "shift",
             "document", "bom", "routing"}

MCInit ==
    /\ focus \in {"masters", "revise", "release", "documents", "ingest", "retain", "project"}
    /\ PlatformInit /\ NothingRevised
    /\ master = IF focus = "masters" THEN {} ELSE AllCodes
    /\ qual = IF focus = "release" THEN MCQuals ELSE {}
    /\ rev = CASE focus = "revise" -> [r \in Revisions |-> IF r \in {d1, d2} THEN "draft"
                                                           ELSE "effective"]
               [] focus = "release" -> [r \in Revisions |-> IF r = d2 THEN "approved"
                                                            ELSE "effective"]
               [] OTHER -> [r \in Revisions |-> Absent]

Open == Cardinality({c \in Clients : desk[c] # Idle \/ ingest[c] # NoIngest
                        \/ retention[c] # NoRun})

MCNext ==
    /\ \/ focus = "masters" /\ MasterStep
       \/ focus = "revise" /\ RevisionStep
       \/ focus = "release" /\ (ReleaseStep \/ RevisionStep \/ Platform(PassTime)) /\ Open' <= 2
       \/ focus = "documents" /\ (Platform(ObjectStep) \/ RevisionStep) /\ Open' = 0
       \/ focus = "ingest" /\ Platform(IngestStep) /\ Open' <= 2
       \/ /\ focus = "retain"
          /\ Platform(IngestStep \/ RetentionStep)
          /\ Cardinality({c \in Clients : ingest'[c] # NoIngest}) <= 1
          /\ Cardinality({c \in Clients : retention'[c] # NoRun}) <= 1
          /\ batch' \subseteq Plain
       \/ focus = "project" /\ Platform(RebuildStep)
    /\ UNCHANGED focus

MCSpec == MCInit /\ [][MCNext]_<<recordVars, focus>>

Sessions == Permutations(Clients)
=============================================================================
