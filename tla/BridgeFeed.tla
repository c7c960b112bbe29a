----------------------------- MODULE BridgeFeed -----------------------------
(***************************************************************************)
(* What the Bridge serves of Codex's threads, scene by scene: a thread live    *)
(* (LiveFeed), the images of its messages (LocalAssets), the list of all        *)
(* threads and the sessions begun in their workspaces (ThreadListing), and what  *)
(* is told of a tool (ToolActivity).  The last three share no state with the    *)
(* others, and nobody else acts in their scenes.                              *)
(***************************************************************************)
EXTENDS LiveFeed, LocalAssets, ThreadListing, ToolActivity

vars == <<feedVars, assetVars, listingVars, toolVars>>

Init ==
  /\ FeedInit /\ AssetsInit
  /\ \/ "threads" \in scene
     \/ "threads" \notin scene /\ recency = [t \in Threads |-> 0] /\ target = [l \in Links |-> Root]
  /\ ListingInit
  /\ \/ "tools" \in scene
     \/ "tools" \notin scene /\ tool = [pc |-> "none", own |-> "none", item |-> CHOOSE i \in Items : TRUE]
  /\ ToolsInit

Next ==
  \/ scene \cap {"images", "threads", "tools"} = {}
     /\ FeedNext /\ UNCHANGED <<assetVars, listingVars, toolVars>>
  \/ "images" \in scene /\ AssetsNext /\ UNCHANGED <<feedVars, listingVars, toolVars>>
  \/ "threads" \in scene /\ ListingNext /\ UNCHANGED <<feedVars, assetVars, toolVars>>
  \/ "tools" \in scene /\ ToolsNext /\ UNCHANGED <<feedVars, assetVars, listingVars>>

Spec == Init /\ [][Next]_vars
=============================================================================
