--------------------------- MODULE MCWidgetPlayer ---------------------------
(* Instances of WidgetPlayer: two videos beside a photo, a frame, and what    *)
(* the shop may switch.                                                       *)
EXTENDS WidgetPlayer

MCMedia == {<<"video", "photo", "video">>, <<"frame", "video">>}

Switches(row, on, hover, plays, tabs) ==
    [player |-> row, auto |-> on, hoverPauses |-> hover, autoplay |-> plays,
     questions |-> tabs]

MCConfigs == {Switches(TRUE, TRUE, TRUE, TRUE, TRUE),
              Switches(TRUE, TRUE, FALSE, FALSE, FALSE),
              Switches(FALSE, FALSE, TRUE, TRUE, TRUE)}

=============================================================================
