---------------------------- MODULE MCPanelInput ----------------------------
(* PanelInput on six panels: the two text panels that behave differently   *)
(* on Enter, the command panel a flyby can replay, and three that do not   *)
(* read text.                                                              *)
EXTENDS PanelInput

CONSTANTS ninfo, cmd, gotonode, login, panellist, fbstat

MCPanel      == {ninfo, cmd, gotonode, login, panellist, fbstat}
MCUinp       == {cmd, gotonode, login}
MCLinger     == {cmd, login}
MCFbIgn      == {cmd, gotonode, login, panellist, fbstat}
\* ids 1, 2, 4, 8, 16 are below NPANELS; 32 (gotonode) and up are not
MCReplayable == {ninfo, cmd, fbstat}
MCScripted   == {ninfo, cmd, gotonode}
=============================================================================
