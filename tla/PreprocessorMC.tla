---------------------------- MODULE PreprocessorMC ----------------------------
EXTENDS Preprocessor, SequencesExt

L(kind) == [kind |-> kind, rows |-> 1, name |-> "A", wants |-> TRUE, target |-> "missing"]
Wide(kind) == [L(kind) EXCEPT !.rows = 2]
Not(line) == [line EXCEPT !.wants = FALSE]
Include(d) == [L("include") EXCEPT !.target = d]

Directives == {L("code"), L("if"), L("elseif"), L("else"), L("endif")}
Lines == Directives \cup {L("define"), L("undef"), Not(L("if")), Not(L("elseif")),
                          L("unreadable"), Include("inc")}
\* Nested conditions beside an include that is empty, all else beside any.
MainTexts == BoundedSeq(Lines, 3)
NestedTexts == {<<x>> \o s : x \in {Not(L("if")), L("if")}, s \in SeqOf(Directives, 4)}
IncTexts == {<<>>, <<L("define")>>, <<Include("main"), L("undef")>>,
              <<Not(L("if")), L("define"), Include("inc"), L("endif")>>}
Project(main, inc) == [d \in {"main", "inc"} |-> IF d = "main" THEN main ELSE inc]
MCProjects == {Project(main, inc) : main \in MainTexts, inc \in IncTexts}
                \cup {Project(main, <<>>) : main \in NestedTexts}
MCEdits == Project({}, {<<L("define"), L("code")>>})

WideProjects == {Project(main, <<>>) : main \in BoundedSeq({L("if"), L("endif"), Wide("code")}, 3)}
NoEdits == Project({}, {})
=============================================================================
