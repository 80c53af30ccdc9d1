---------------------------- MODULE MCPublication ----------------------------
(***************************************************************************)
(* What publishing rests on while other runs and people go on working: the  *)
(* ledger of version reservations, the published candidate that a run       *)
(* trusts, the branch a run publishes from, and the image tags it moves.  A *)
(* behaviour is about the one that `part` names.                            *)
(*                                                                         *)
(* Ledger: under the workflow's concurrency group, three candidate runs and  *)
(* a promotion; racing without it, two of the candidate runs and the         *)
(* promotion.  Each run has two attempts.                                    *)
(* Candidate: two files with two contents each; three changes by others,    *)
(* enough to replace an asset together with the manifest and to move        *)
(* something else.                                                          *)
(* Source: 1 is the source, 2 and 3 follow it (3 changes the workflows), 4  *)
(* rewrites the branch without it; three pushes or changes of the default.  *)
(* Images: two destinations, three publishers, two of them of one release,  *)
(* and one push by hand.                                                    *)
(***************************************************************************)
EXTENDS ReleaseLedger, CandidateVerification, PublicationSource, ImagePublication

VARIABLE part

MCAncestors == <<{}, {1}, {1, 2}, {}>>
MCTree == <<"old", "old", "new", "old">>
MCImages == <<"gateway", "simulator">>
MCStableRelease == <<1, 1, 2>>

allVars == <<part, vars, verificationVars, sourceVars, registryVars>>

(* A part that does not run starts in one of its initial states.            *)
MCInit ==
    /\ part \in {"ledger", "candidate", "source", "images"}
    /\ Init /\ VerificationInit /\ SourceInit /\ RegistryInit
    /\ part # "ledger" => grouped
    /\ part # "candidate" => mode = "promote"
    /\ part # "source" => kind = "versioned" /\ automatic /\ scoped
    /\ part # "images" => latest = [p \in Publishers |-> FALSE]

(* Bound: the third candidate run waits for ever if the runs may race.       *)
Ledger == Next /\ (grouped \/ attempt'["c3"] = 0)

MCNext ==
    \/ /\ part = "ledger" /\ Ledger
       /\ UNCHANGED <<part, verificationVars, sourceVars, registryVars>>
    \/ /\ part = "candidate" /\ VerificationNext
       /\ UNCHANGED <<part, vars, sourceVars, registryVars>>
    \/ /\ part = "source" /\ SourceNext
       /\ UNCHANGED <<part, vars, verificationVars, registryVars>>
    \/ /\ part = "images" /\ RegistryNext
       /\ UNCHANGED <<part, vars, verificationVars, sourceVars>>

MCSpec == MCInit /\ [][MCNext]_allVars

==============================================================================
