------------------------------ MODULE MCIntake ------------------------------
(* Instance of Intake for TLC. *)
EXTENDS Intake, TLC

CONSTANTS k1, k2, t1, a, b, x

SomeNames == {<<a>>, <<b>>}

Values(va, vb) == <<a>> :> va @@ <<b>> :> vb

Direct(key) ==
    [key |-> key, content |-> <<x>>, template |-> NoTemplate,
     variables |-> Values(NoValue, NoValue), fields |-> "good"]

Templated(variables) ==
    [Direct(NoKey) EXCEPT !.content = <<>>, !.template = t1, !.variables = variables]

\* Items with a key; with a template that may come out empty or too long; with
\* content that is too long beside a template.
SomeBatchItems ==
    {Direct(k1), Direct(k2), Templated(Values(<<>>, <<x, x, x>>)),
     [Templated(Values(<<x>>, NoValue)) EXCEPT !.content = <<x, x, x>>]}

\* Also two whose value for a is the name b, or a placeholder.
SomeItems ==
    SomeBatchItems \cup {Templated(Values(<<b>>, <<x>>)), Templated(Values(Pattern(<<b>>), <<x>>))}

SomeSources == {<< <<a>> >>, << <<a>>, <<b>>, x, <<a>> >>}

\* Also {{{{a}}}}, which has braces beside those of its placeholder.
SomeTexts == {Spell(source) : source \in SomeSources}
                 \cup {<<LBrace, LBrace>> \o Pattern(<<a>>) \o <<RBrace, RBrace>>}
=============================================================================
