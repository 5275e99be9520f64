--------------------------- MODULE RssPublication ---------------------------
(***************************************************************************)
(* RssPublicationAdapter of publishing.py: one item per episode, and a     *)
(* feed that is built anew from all items by each publication.             *)
(*                                                                         *)
(* An item is told apart by its episode (the GUID) and the length of its   *)
(* audio, which is all of the package it contains.  No lock guards items   *)
(* and feed: calls with different keys overlap here.                       *)
(***************************************************************************)
EXTENDS PublicationCalls

CONSTANTS
  Audio,     \* the file that is the episode's audio
  LengthOf   \* LengthOf[d]: the number of bytes of d

VARIABLES
  items,  \* items[g][e]: the item of episode e in target g
  feeds,  \* feeds[g][e]: the item of e in the feed as it is served
  built,  \* built[t]: the feed that t has built and not yet stored
  alone,  \* history: threads no other has met in the adapter, at their target
  raced   \* history: targets whose feed was not last stored by one of those

rss == <<items, feeds, built, alone, raced>>

Lengths == {LengthOf[d] : d \in Contents}
Feed == [Episodes -> Lengths \cup {Nothing}]

ASSUME RssAssumption ==
  /\ Audio \in Files
  /\ Nothing \notin Lengths

NoItems == [e \in Episodes |-> Nothing]
Guids(feed) == {e \in Episodes : feed[e] # Nothing}

RssTypeOK ==
  /\ items \in [Targets -> Feed]
  /\ feeds \in [Targets -> Feed]
  /\ built \in [Threads -> Feed]
  /\ alone \subseteq Threads
  /\ raced \subseteq Targets

RssInit ==
  /\ items = [g \in Targets |-> NoItems]
  /\ feeds = [g \in Targets |-> NoItems]
  /\ built = [t \in Threads |-> NoItems]
  /\ alone = {}
  /\ raced = {}

Item(t) == LengthOf[BytesOf(t, Audio)]
OldItem(t) == items[TargetOf(t)][EpisodeOf(t)]
InRss(g) == {u \in Threads : /\ pc[u] \in {"setItem", "buildFeed", "storeFeed"}
                             /\ TargetOf(u) = g}
-----------------------------------------------------------------------------
(* An item of the same GUID has to be the same.                            *)
CheckItem(t) ==
  /\ At(t, "rss")
  /\ \/ /\ OldItem(t) \in {Nothing, Item(t)}
        /\ Goto(t, "setItem")
        /\ alone' = IF InRss(TargetOf(t)) = {} THEN alone \cup {t}
                    ELSE alone \ InRss(TargetOf(t))
     \/ OldItem(t) \notin {Nothing, Item(t)} /\ Goto(t, "failed") /\ UNCHANGED alone
  /\ UNCHANGED <<items, feeds, built, raced, call, left>>

SetItem(t) ==
  /\ At(t, "setItem") /\ Goto(t, "buildFeed")
  /\ items' = [items EXCEPT ![TargetOf(t)][EpisodeOf(t)] = Item(t)]
  /\ UNCHANGED <<feeds, built, alone, raced, call, left>>

(* (mutant: the feed has the new item only)                                *)
BuildOwnFeed(t) ==
  /\ At(t, "buildFeed") /\ Goto(t, "storeFeed")
  /\ built' = [built EXCEPT ![t] = [NoItems EXCEPT ![EpisodeOf(t)] = Item(t)]]
  /\ UNCHANGED <<items, feeds, alone, raced, call, left>>

BuildFeed(t) ==
  /\ At(t, "buildFeed") /\ Goto(t, "storeFeed")
  /\ built' = [built EXCEPT ![t] = items[TargetOf(t)]]
  /\ UNCHANGED <<items, feeds, alone, raced, call, left>>

StoreFeed(t) ==
  /\ At(t, "storeFeed") /\ Goto(t, "done")
  /\ feeds' = [feeds EXCEPT ![TargetOf(t)] = built[t]]
  /\ built' = [built EXCEPT ![t] = NoItems]
  /\ alone' = alone \ {t}
  /\ raced' = IF t \in alone THEN raced \ {TargetOf(t)} ELSE raced \cup {TargetOf(t)}
  /\ UNCHANGED <<items, call, left>>

(* Items and feeds live in memory.                                         *)
RssCrash ==
  /\ items' = [g \in Targets |-> NoItems]
  /\ feeds' = [g \in Targets |-> NoItems]
  /\ built' = [t \in Threads |-> NoItems]
  /\ alone' = {} /\ raced' = {}

RssStep(t) == CheckItem(t) \/ SetItem(t) \/ BuildFeed(t) \/ StoreFeed(t)
=============================================================================
