-------------------------- MODULE MCWidgetWriting ---------------------------
(* Instances of WidgetWriting: the places a form may have.                    *)
EXTENDS WidgetWriting

Layout(shown, mode, cta, tabs, files) ==
    [form |-> shown, mode |-> mode, cta |-> cta, questions |-> tabs,
     maxMedia |-> files]

MCConfigs == {Layout(TRUE, "inline", "both", TRUE, 3),
              Layout(TRUE, "button", "section", TRUE, 1),
              Layout(TRUE, "inline", "header", FALSE, 2),
              Layout(FALSE, "inline", "section", TRUE, 1)}

=============================================================================
