----------------------------- MODULE MessageFeed -----------------------------
(***************************************************************************)
(* The message feed of the Product Runtime.  A store (the product database   *)
(* or the projection shard of a thread) maps message ids to messages; a      *)
(* message has a sort key, fixed when it is created, and the time of its     *)
(* last update.  A reader pages by cursor, the later of the two, but pages   *)
(* are ordered by sort key.                                                  *)
(***************************************************************************)
EXTENDS Naturals, FiniteSets

Later(a, b) == IF a > b THEN a ELSE b

Cursor(m) == Later(m.sort, m.upd)

(* append_message keeps the sort key of the row it replaces.                *)
Stored(store, id, m) ==
    IF id \in DOMAIN store
    THEN [m EXCEPT !.sort = store[id].sort, !.upd = Later(store[id].upd, m.upd)]
    ELSE m

AppendMessage(store, id, m) ==
    [i \in DOMAIN store \cup {id} |-> IF i = id THEN Stored(store, id, m) ELSE store[i]]

Only(store, ids) == [i \in ids |-> store[i]]

(* The n messages of the page with the lowest, the highest sort keys.       *)
First(page, n) ==
    Only(page, {i \in DOMAIN page :
                  Cardinality({j \in DOMAIN page : page[j].sort < page[i].sort}) < n})
Newest(page, n) ==
    Only(page, {i \in DOMAIN page :
                  Cardinality({j \in DOMAIN page : page[j].sort > page[i].sort}) < n})

(* The newest n of all, or the first n whose cursor is later; 0 is no cursor.*)
Page(store, after, n) ==
    IF after = 0 THEN Newest(store, n)
    ELSE First(Only(store, {i \in DOMAIN store : Cursor(store[i]) > after}), n)

(* merge_projected_messages: of two versions the one with the later cursor. *)
Merged(p, s) ==
    [i \in DOMAIN p \cup DOMAIN s |->
       IF i \in DOMAIN p /\ (i \in DOMAIN s => Cursor(p[i]) >= Cursor(s[i]))
       THEN p[i] ELSE s[i]]

(* The cursor a page leaves its reader: that of its last message.           *)
LastCursor(page, after) ==
    IF DOMAIN page = {} THEN after
    ELSE LET last == CHOOSE i \in DOMAIN page :
                       \A j \in DOMAIN page : page[j].sort <= page[i].sort
         IN Cursor(page[last])
=============================================================================
