--------------------------- MODULE MCGroupCommand ---------------------------
(***************************************************************************)
(* Small instances of GroupCommand for TLC.                                *)
(***************************************************************************)
EXTENDS GroupCommand

\* The voicing is set to one that rules the bass out, the bass is raised.
VoicingAndBass == {<<"voicing", "on">>, <<"bass", "on">>}

\* The bass of the speakers that stay is turned at the speakers themselves.
BassKnobs == (Speakers \ Leaving) \X {"bass"}

\* The speakers are muted and unmuted.
MuteUnmute == {<<"mute", "on">>, <<"mute", "off">>}
=============================================================================
