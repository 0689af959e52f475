------------------------------- MODULE MCDrill -------------------------------
(***************************************************************************)
(* Drill in three scenes: any two writers at work on the file; a drill     *)
(* that raises the load while ads are asked for; a drill that breaks the   *)
(* cache while recommendations are.                                        *)
(***************************************************************************)
EXTENDS Drill

CONSTANT MaxDrills   \* bound: drills in the scenes of the services

VARIABLES
  scene,
  active   \* the writers at work

\* Any two writers, of each kind the same one first.
Pairs ==
  LET first(kind) == IF kind = {} THEN {} ELSE {CHOOSE w \in kind : TRUE}
      firsts == first(Basic) \cup first(Advanced) \cup first(Drills)
  IN {{v, w} : v \in firsts, w \in firsts} \cup {Drills}

MCInit ==
  /\ Init
  /\ \/ scene = "files" /\ active \in Pairs
     \/ scene \in {"ads", "recommendations"} /\ active \in {{d} : d \in Drills} \cap Pairs

\* The drill of a scene of the services, which is not killed.
DrillOn(f) ==
  \E d \in active :
    \/ StartDrill(d, f) /\ writes < MaxDrills
    \/ EndDrill(d) \/ Truncate(d) \/ Land(d)

Scene ==
  \/ /\ scene = "files"
     /\ \/ \E w \in active \cap Pages : PageNext(w)
        \/ \E d \in active \cap Drills : DrillNext(d)
        \/ \E w \in active : WriteNext(w)
     /\ UNCHANGED <<adVars, recVars>>
  \/ /\ scene = "ads"
     /\ DrillOn(adHighCpu) \/ Watch
     /\ UNCHANGED <<adVars, recVars>>
  \/ scene = "ads" /\ Ads
  \/ /\ scene = "recommendations"
     /\ DrillOn(recommendationCacheFailure) \/ Watch
     /\ UNCHANGED <<adVars, recVars>>
  \/ scene = "recommendations" /\ Recommendations

MCNext == Scene /\ UNCHANGED <<scene, active>>

MCSpec ==
  /\ MCInit /\ [][MCNext]_<<vars, scene, active>>
  /\ scene = "ads" => Fairness
=============================================================================
