--------------------------- MODULE MCPanelContent ---------------------------
(* PanelContent with a few panels open at a time: panels that read the     *)
(* same things or share a mark are put together, and every panel of        *)
(* pinfo[] is in a group.                                                  *)
EXTENDS PanelContent

MCGroups == {{"ninfo", "legend"}, {"gotojob", "legend"}, {"cmd", "gotonode"},
             {"fbstat", "fbcreat"}, {"fbcho", "fbstat"}, {"fbstat", "legend"},
             {"sshot", "eggs"}, {"status", "eggs"}, {"login", "dxcho"}, {"dscho", "date"},
             {"reel", "date"}, {"dmode", "cam"}, {"compass", "keyh"},
             {"keyh", "pipe"}, {"options", "pipe"}, {"rt", "pipedim"},
             {"panels", "wiadj"}, {"help", "fps"}, {"vnmode", "vmode"}}
=============================================================================
