--------------------------------- MODULE Drill ---------------------------------
(***************************************************************************)
(* The flags at work: the pages and drills write the flag file, flagd      *)
(* serves what it can read of it, and the ad and the recommendation        *)
(* services evaluate a flag of theirs in every call.                       *)
(***************************************************************************)
EXTENDS FlagFile, AdLoad, Recommendation

CONSTANTS adHighCpu, recommendationCacheFailure

ASSUME FlagsAssumption == {adHighCpu, recommendationCacheFailure} \subseteq Flags

vars == <<fileVars, adVars, recVars>>

Served(f) == flagd[f] = "on"

Files == FileNext /\ UNCHANGED <<adVars, recVars>>
Ads == AdNext(Served(adHighCpu)) /\ UNCHANGED <<fileVars, recVars>>
Recommendations ==
  RecNext(Served(recommendationCacheFailure)) /\ UNCHANGED <<fileVars, adVars>>

Init == FileInit /\ AdInit /\ RecInit
Next == Files \/ Ads \/ Recommendations

\* flagd's watcher settles, shoppers go on to ask for ads, and each thread that
\* serves one runs; nobody has to press a button, and a drill may never end.
FlagdSettles == Watch /\ UNCHANGED <<adVars, recVars>>
AdsWanted == (\E c \in AdCalls : GetInstance(c)) /\ UNCHANGED <<fileVars, recVars>>
AdServed(c) ==
  (AdStep(c) \/ EvaluateFlag(c, Served(adHighCpu))) /\ UNCHANGED <<fileVars, recVars>>

Fairness ==
  /\ WF_vars(FlagdSettles)
  /\ WF_vars(AdsWanted)
  /\ \A c \in AdCalls : WF_vars(AdServed(c))

Spec == Init /\ [][Next]_vars /\ Fairness

-----------------------------------------------------------------------------

\* The file says, for good, that the load is off.
SwitchedOff == file \in Configs /\ file[adHighCpu] = "off"

\* CPULoad.execute "If enabled, it launches worker threads. If disabled, it stops
\* any running threads": however the calls that start and stop the workers
\* overlap, once the flag is off for good all of them stop - unless two calls
\* had each created an instance, whose workers the other cannot stop.
LoadStops == <>[]SwitchedOff => <>[](spinning = 0 \/ instances > 1)
=============================================================================
