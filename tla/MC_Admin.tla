------------------------------- MODULE MC_Admin -------------------------------
(* What administrators do, for TLC: each behaviour is about the settlement   *)
(* of a market (Settlement), the curated tags (Tags) or the pictures behind  *)
(* tiles (Backgrounds).                                                      *)
EXTENDS Settlement

\* Of Tags and of Backgrounds.
CONSTANTS Tabs, Labels, MaxRows, MaxClicks, FileTag, MaxSaves, MaxDeletes, MaxTurns

VARIABLES about,   \* what this behaviour is about
          faults   \* calls that failed, of the last two
VARIABLES name, rows, used, shown, asks, calm, clicks
VARIABLES saves, files, pictures, deletes, page, query, turns

\* The file names of all tags spell one of them: the others have signs in theirs.
SameFile == [t \in Labels |-> CHOOSE u \in Labels : TRUE]

Tagging == INSTANCE Tags
Picture == INSTANCE Backgrounds WITH rows <- pictures

ASSUME CurationAssumption == MaxRows \in Nat /\ Picture!FileTagAssumption

tagVars == <<name, rows, used, shown, asks, calm, clicks>>
pictureVars == <<saves, files, pictures, deletes, page, query, turns>>
admin == <<about, faults, vars, tagVars, pictureVars>>

AdminInit ==
    /\ about \in {"settlement", "tags", "pictures"}
    /\ Init /\ Tagging!Init /\ Picture!Init
    /\ about # "tags" => name = <<>> /\ used = {}

Settling == about = "settlement" /\ Next /\ UNCHANGED <<about, faults, tagVars, pictureVars>>
TagStep == about = "tags" /\ Tagging!Next /\ UNCHANGED <<about, vars, pictureVars>>
PictureStep == about = "pictures" /\ Picture!Next /\ UNCHANGED <<about, vars, tagVars>>
AdminNext == Settling \/ TagStep \/ PictureStep

\* What a behaviour is not about has not begun, and none of its steps is due.
AdminSpec == AdminInit /\ [][AdminNext]_admin /\ Fairness

(* What an administrator curates is what the pages show.                      *)
CurationTrue == Tagging!TagsTrue /\ []Picture!BackgroundsTrue
===============================================================================
