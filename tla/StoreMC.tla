------------------------------- MODULE StoreMC -------------------------------
(***************************************************************************)
(* Small instances of Store: a plugin in scripting/ that includes a.inc,   *)
(* which may be in scripting/include/ or in the include directory inc/,    *)
(* where it includes b.inc; sub/ and other/ are directories of inc/.       *)
(***************************************************************************)
EXTENDS Store

CONSTANTS scripting, include, inc, sub, other, none, nomain   \* model values

P  == <<scripting, "p.sp">>
A1 == <<include, "a.inc">>
A2 == <<inc, "a.inc">>
B  == <<inc, "b.inc">>
BC == <<inc, "b c.inc">>
C  == <<sub, "c.inc">>
C2 == <<other, "c.inc">>

MCDir == {scripting, include, inc, sub, other}
MCIncludeDir == [d \in MCDir |-> IF d = scripting THEN include ELSE none]
MCBelow == [d \in MCDir |-> CASE d = scripting -> {scripting, include}
                             [] d = inc -> {inc, sub, other}
                             [] OTHER -> {d}]
MCName == {"p.sp", "a.inc", "b.inc", "b c.inc", "c.inc", "sourcemod.inc"}
\* The path of other/ continues that of sub/, as "maps2" does "maps".
MCCovers == [MCBelow EXCEPT ![sub] = {sub, other}]
\* The URI of "b c.inc" ends in b%20c.inc.
MCMentions == [f \in File |-> {f[2]} \ {"b c.inc"}]

Angle(n) == [name |-> n, quoted |-> FALSE]
Quote(n) == [name |-> n, quoted |-> TRUE]

MCText == {"", "plugin", "uses_a", "uses_b", "uses_bc", "uses_c", "other"}
MCDirectives == [t \in MCText |->
    CASE t = "plugin" -> {Quote("a.inc")}
      [] t = "uses_a" -> {Angle("a.inc")}
      [] t = "uses_b" -> {Angle("b.inc")}
      [] t = "uses_bc" -> {Angle("b c.inc")}
      [] t = "uses_c" -> {Angle("c.inc")}
      [] OTHER -> {}]

With(dirs, m) == [includes_directories |-> dirs, main_path |-> m]
Holding(fs, text) == [f \in fs |-> text[f]]

\* store_client: a main file, an include beside it that includes a third file,
\* whose URI does not mention its name, and a configuration that knows the
\* directory of the third, or not.
ClientFile  == {P, A1, BC}
ClientTexts == [f \in ClientFile |-> CASE f = P -> {"plugin"}
                                       [] f = A1 -> {"uses_bc", "other"}
                                       [] f = BC -> {"other"}]
ClientDisks == {[f \in S |-> CHOOSE t \in ClientTexts[f] : TRUE] :
                    S \in {ClientFile, {P, A1}}}
ClientConfigurations == {With(<<inc>>, P), With(<<>>, nomain)}

\* store_disk and others: two files of the include directory.
DiskFile  == {A2, B}
DiskTexts == [f \in DiskFile |-> IF f = A2 THEN {"uses_b", "other"} ELSE {"other", ""}]
DiskDisks == {[f \in S |-> "other"] : S \in {{}, DiskFile}}
DiskConfigurations == {With(<<inc>>, nomain)}

\* store_move: files and directories renamed within the include directory;
\* a.inc is included by all of them, as sourcemod.inc is.
MoveFile  == {A2, C, C2}
MoveTexts == [f \in MoveFile |-> IF f = A2 THEN {"uses_c"} ELSE {}]
MoveDisks == {[f \in {A2, C} |-> IF f = A2 THEN "uses_c" ELSE "other"]}
MoveConfigurations == {With(<<inc, sub>>, nomain)}

\* store_outside: the main file is in no scanned directory.
OutsideFile  == {P, A2}
OutsideTexts == [f \in OutsideFile |-> IF f = P THEN {"plugin"} ELSE {"other"}]
OutsideDisks == {[f \in OutsideFile |-> IF f = P THEN "plugin" ELSE "other"]}
OutsideConfigurations == {With(<<inc>>, P)}
=============================================================================
