------------------------------- MODULE Catalog -------------------------------
(***************************************************************************)
(* Venues, menus, sections and orders: fanfood.rs and the routes that call  *)
(* it.  Each call runs on one connection without a transaction, so every    *)
(* SELECT, INSERT and UPDATE is an action of its own and other requests,    *)
(* of this process or another, come between two of them.                    *)
(*                                                                          *)
(* A row has the columns an order depends on; the other columns (names,     *)
(* address, notes, sort order and so on) travel like these, from a body or  *)
(* from the row read before.  A body is valid here: what its texts must     *)
(* look like is left out.  Rows are never deleted.                          *)
(***************************************************************************)
EXTENDS Integers, FiniteSets, Sequences

CONSTANTS Users, Workers,
          Admins,                       \* the users is_admin_email accepts
          VenueIds, ItemIds, SectionIds, OrderIds,
          Words,                        \* what a slug joins with dashes
          Slugs,                        \* those that bodies ask for, or names make
          Heads,                        \* the first 6 characters of new ids
          Codes, Prices, Qtys,
          SeedSlug, SeedPrices,         \* of the seeded venue and items
          None,
          MaxWrites,  \* bound on the requests that write the catalogue
          MaxReaders, \* bound on the other requests under way at once
          MaxPatch    \* bound on the columns one update names

ASSUME CatalogAssumption ==
    /\ Admins \subseteq Users
    /\ Prices \subseteq Nat /\ SeedPrices \subseteq Prices /\ Qtys \subseteq 1..20
    /\ None \notin VenueIds \cup ItemIds \cup SectionIds \cup OrderIds \cup Users
    /\ None \notin Codes
    /\ Heads \subseteq Words /\ Slugs \subseteq Seq(Words) /\ SeedSlug \in Slugs
    /\ MaxWrites \in Nat /\ MaxReaders \in Nat /\ MaxPatch \in Nat
    /\ \A S \in {VenueIds, ItemIds, SectionIds, OrderIds} : IsFiniteSet(S)

VARIABLES
    db,     \* the tables: each maps the ids of its rows to the rows
    req,    \* per worker: the request it serves
    writes  \* how many requests to write the catalogue there have been

catalogVars == <<db, req, writes>>

Modes == {"premium", "all", "pickup_only"}
Flags == {0, 1}
Tables == {"Venues", "MenuItems", "VenueSections"}

(* A slug that is taken gets the head of the new id for a suffix.  Nothing  *)
(* keeps two ids from one head, or a body from asking for the whole slug.   *)
AllSlugs == Slugs \cup {Append(slug, head) : slug \in Slugs, head \in Heads}

Venues == [slug : AllSlugs, mode : Modes, active : Flags]
MenuItems == [venue : VenueIds, price : Prices, active : Flags]
Sections == [venue : VenueIds, code : Codes, delivery : Flags]
Rows == [Venues |-> Venues, MenuItems |-> MenuItems, VenueSections |-> Sections]
Ids == [Venues |-> VenueIds, MenuItems |-> ItemIds, VenueSections |-> SectionIds]
Orders == [user : Users, venue : VenueIds, item : ItemIds, section : SectionIds,
           code : Codes, qty : Qtys, total : Nat, deliver : BOOLEAN]

Creates == {"create_venue", "create_menu_item", "create_section"}
TableOf == [update_venue |-> "Venues", update_menu_item |-> "MenuItems",
            update_section |-> "VenueSections"]
Updates == DOMAIN TableOf
Reads == {"list_active_venues", "list_all_venues", "active_menu", "active_sections",
          "admin_menu", "list_orders", "find_order"}
AdminKinds == Creates \cup Updates \cup {"admin_menu", "list_all_venues"}

(* The body of an update: what it names, and the new values. *)
Patches(t) ==
    LET cols == [Venues |-> {"mode", "active"}, MenuItems |-> {"price", "active"},
                 VenueSections |-> {"code", "delivery"}][t]
    IN {[c \in S |-> r[c]] : S \in {T \in SUBSET cols : Cardinality(T) <= MaxPatch},
                             r \in Rows[t]}

(* The path and the body of each kind of request. *)
Args(k) ==
    CASE k = "place_order" ->
            [key : AllSlugs \cup VenueIds, item : ItemIds, code : Codes, qty : Qtys]
      [] k \in {"active_menu", "active_sections"} -> [key : AllSlugs \cup VenueIds]
      [] k = "admin_menu" -> [venue : VenueIds]
      [] k = "find_order" -> [id : OrderIds]
      [] k = "create_venue" -> [slug : Slugs, mode : Modes, active : Flags]
      [] k = "create_menu_item" -> [venue : VenueIds, price : Prices]
      [] k = "create_section" -> [venue : VenueIds, code : Codes, delivery : Flags]
      [] k \in Updates -> [id : Ids[TableOf[k]], patch : Patches(TableOf[k])]
      [] OTHER -> [key : {None}]

(* venue, item, section: ids of the rows read.  row: the last one read.     *)
(* slug: of the venue to create.  seen: what the answer lists.  dirty is    *)
(* history: has another request written a row since this one's first SELECT.*)
Idle == [pc |-> "idle", kind |-> None, user |-> None, arg |-> [key |-> None],
         venue |-> None, item |-> None, mode |-> None, price |-> None,
         section |-> None, delivery |-> None, row |-> None, slug |-> None,
         seen |-> {}, dirty |-> FALSE]

Put(f, id, row) == [x \in DOMAIN f \cup {id} |-> IF x = id THEN row ELSE f[x]]
Free(t) == Ids[t] \ DOMAIN db[t]

MoveOn(w, label) == req' = [req EXCEPT ![w].pc = label]

(* The request ends, with the answer to a write or an error status. *)
Finish(w) == req' = [req EXCEPT ![w] = Idle]

(* A read or an order is answered. *)
AnswerRead(w, seen) ==
    req' = [req EXCEPT ![w] =
              [Idle EXCEPT !.pc = "done", !.kind = req[w].kind, !.user = req[w].user,
                           !.arg = req[w].arg, !.venue = req[w].venue,
                           !.seen = seen, !.dirty = req[w].dirty]]

FirstStep(k) ==
    CASE k \in {"place_order", "active_menu", "active_sections"} -> "venue"
      [] k \in Reads \ {"active_menu", "active_sections"} -> "list"
      [] k = "create_venue" -> "slug"
      [] k \in {"create_menu_item", "create_section"} -> "exists"
      [] OTHER -> "read"

(* No SELECT of the request has run.                                        *)
Unread(w) == req[w].pc \in {"idle", FirstStep(req[w].kind)}

(* The row is written, and will be read again for the answer; every other   *)
(* request that has read something has been overtaken.                      *)
Written(w) ==
    req' = [v \in Workers |->
               IF v = w THEN [Idle EXCEPT !.pc = "reread"]
               ELSE IF Unread(v) THEN req[v]
               ELSE [req[v] EXCEPT !.dirty = TRUE]]
------------------------------------------------------------------------------
(* Faults: plausible bugs, which the properties below must rule out. *)

(* An omitted field is written as its default, as a create does. *)
MergeResets(row, patch) ==
    [c \in DOMAIN row |->
        IF c \in DOMAIN patch THEN patch[c]
        ELSE IF c = "active" THEN 1 ELSE row[c]]

(* A premium seat is delivered to although the venue only has pickup. *)
SeatDeliveryBySection(mode, eligible) == mode = "all" \/ eligible = 1

(* The item is looked up by its id alone. *)
OnSaleAnywhere(item, venue) ==
    item \in DOMAIN db.MenuItems /\ db.MenuItems[item].active = 1

(* The suffix is left off: a second venue of a name cannot be made. *)
SuffixNever(slug, head, taken) == slug
------------------------------------------------------------------------------
(* seat_delivery *)
SeatDelivery(mode, eligible) ==
    mode = "all" \/ (mode # "pickup_only" /\ eligible = 1)

(* find_active_venue: by slug or by id. *)
ActiveVenue(key) ==
    {v \in DOMAIN db.Venues :
        /\ db.Venues[v].active = 1
        /\ key = v \/ key = db.Venues[v].slug}

(* The WHERE clause of place_order's menu query. *)
OnSale(item, venue) ==
    /\ item \in DOMAIN db.MenuItems
    /\ db.MenuItems[item].venue = venue
    /\ db.MenuItems[item].active = 1

SectionsOf(venue) == {s \in DOMAIN db.VenueSections : db.VenueSections[s].venue = venue}
Coded(venue, code) == {s \in SectionsOf(venue) : db.VenueSections[s].code = code}

(* What an update writes: the body's fields, and the rest from the row read. *)
Merge(row, patch) ==
    [c \in DOMAIN row |-> IF c \in DOMAIN patch THEN patch[c] ELSE row[c]]

Taken(slug) == \E v \in DOMAIN db.Venues : db.Venues[v].slug = slug

Suffixed(slug, head, taken) == IF taken THEN Append(slug, head) ELSE slug
------------------------------------------------------------------------------
CatalogInit ==
    \E v \in VenueIds, i \in ItemIds, s \in SectionIds,
       code \in Codes, price \in SeedPrices, flag \in Flags :
        /\ db = [Venues |-> Put(<<>>, v, [slug |-> SeedSlug, mode |-> "premium", active |-> 1]),
                 MenuItems |-> Put(<<>>, i, [venue |-> v, price |-> price, active |-> 1]),
                 VenueSections |-> Put(<<>>, s, [venue |-> v, code |-> code,
                                                 delivery |-> flag]),
                 Orders |-> <<>>]
        /\ req = [w \in Workers |-> Idle]
        /\ writes = 0

Readers == {w \in Workers : req[w].kind \in Reads \cup {"place_order"}}

(* dispatch_fanfood and the route: signed in, the CSRF check, and for the   *)
(* admin routes require_admin, have let the request through.                *)
Begin(w, u, k, a) ==
    /\ req[w].pc = "idle"
    /\ k \in AdminKinds => u \in Admins
    /\ k \in Creates \cup Updates \/ Cardinality(Readers) < MaxReaders
    /\ req' = [req EXCEPT ![w] = [Idle EXCEPT !.pc = FirstStep(k), !.kind = k,
                                              !.user = u, !.arg = a]]
    /\ k \in Creates \cup Updates => writes < MaxWrites
    /\ writes' = IF k \in Creates \cup Updates THEN writes + 1 ELSE writes
    /\ UNCHANGED db

(* require_active_venue *)
ReadVenue(w) ==
    /\ req[w].pc = "venue"
    /\ LET found == ActiveVenue(req[w].arg.key)
       IN \/ found = {} /\ Finish(w)
          \/ \E v \in found :
                req' = [req EXCEPT ![w] =
                          [@ EXCEPT !.venue = v, !.mode = db.Venues[v].mode,
                             !.pc = IF req[w].kind = "place_order" THEN "item" ELSE "list"]]
    /\ UNCHANGED <<db, writes>>

(* place_order: the menu item. *)
ReadItem(w) ==
    /\ req[w].pc = "item"
    /\ LET i == req[w].arg.item
       IN \/ ~OnSale(i, req[w].venue) /\ Finish(w)
          \/ /\ OnSale(i, req[w].venue)
             /\ req' = [req EXCEPT ![w] = [@ EXCEPT !.pc = "section", !.item = i,
                                                   !.price = db.MenuItems[i].price]]
    /\ UNCHANGED <<db, writes>>

(* place_order: the section. *)
ReadSection(w) ==
    /\ req[w].pc = "section"
    /\ LET found == Coded(req[w].venue, req[w].arg.code)
       IN \/ found = {} /\ Finish(w)
          \/ \E s \in found :
                req' = [req EXCEPT ![w] =
                          [@ EXCEPT !.pc = "order", !.section = s,
                                    !.delivery = db.VenueSections[s].delivery]]
    /\ UNCHANGED <<db, writes>>

(* place_order: the INSERT, of what was read, and the answer made of it. *)
PlaceOrder(w, id) ==
    /\ req[w].pc = "order"
    /\ id \in OrderIds \ DOMAIN db.Orders
    /\ LET r == req[w]
           order == [user |-> r.user, venue |-> r.venue, item |-> r.item,
                     section |-> r.section, code |-> r.arg.code, qty |-> r.arg.qty,
                     total |-> r.price * r.arg.qty,
                     deliver |-> SeatDelivery(r.mode, r.delivery)]
       IN db' = [db EXCEPT !.Orders = Put(@, id, order)]
    /\ AnswerRead(w, {id})
    /\ UNCHANGED writes

ActiveVenues == {v \in DOMAIN db.Venues : db.Venues[v].active = 1}

(* find_order: missing and someone else's are the same. *)
FindOrder(id, user) == {o \in DOMAIN db.Orders : o = id /\ db.Orders[o].user = user}

(* What the one SELECT of a read answers. *)
Listed(w) ==
    CASE req[w].kind = "list_active_venues" -> ActiveVenues
      [] req[w].kind = "list_all_venues" -> DOMAIN db.Venues
      [] req[w].kind = "active_menu" -> {i \in ItemIds : OnSale(i, req[w].venue)}
      [] req[w].kind = "active_sections" -> SectionsOf(req[w].venue)
      [] req[w].kind = "admin_menu" ->
            {i \in DOMAIN db.MenuItems : db.MenuItems[i].venue = req[w].arg.venue}
      [] req[w].kind = "find_order" -> FindOrder(req[w].arg.id, req[w].user)
      [] OTHER -> {o \in DOMAIN db.Orders : db.Orders[o].user = req[w].user}

List(w) ==
    /\ req[w].pc = "list"
    /\ AnswerRead(w, Listed(w))
    /\ UNCHANGED <<db, writes>>

(* create_venue: a random id, SELECT by slug, and the suffix if it is taken.*)
CheckSlug(w, id, head) ==
    /\ req[w].pc = "slug"
    /\ id \in Free("Venues")
    /\ LET slug == req[w].arg.slug
       IN req' = [req EXCEPT ![w] =
                    [@ EXCEPT !.pc = "insert", !.venue = id,
                              !.slug = Suffixed(slug, head, Taken(slug))]]
    /\ UNCHANGED <<db, writes>>

(* create_venue: the INSERT; slug is UNIQUE. *)
InsertVenue(w) ==
    /\ req[w].pc = "insert" /\ req[w].kind = "create_venue"
    /\ req[w].venue \in Free("Venues")
    /\ \/ /\ Taken(req[w].slug)
          /\ Finish(w)
          /\ UNCHANGED db
       \/ /\ ~Taken(req[w].slug)
          /\ db' = [db EXCEPT !.Venues =
                      Put(@, req[w].venue, [slug |-> req[w].slug, mode |-> req[w].arg.mode,
                                            active |-> req[w].arg.active])]
          /\ Written(w)
    /\ UNCHANGED writes

(* venue_exists, in create_menu_item and create_section. *)
CheckVenue(w) ==
    /\ req[w].pc = "exists"
    /\ IF req[w].arg.venue \in DOMAIN db.Venues THEN MoveOn(w, "insert") ELSE Finish(w)
    /\ UNCHANGED <<db, writes>>

(* create_menu_item: a new item is on sale. *)
InsertItem(w, id) ==
    /\ req[w].pc = "insert" /\ req[w].kind = "create_menu_item"
    /\ id \in Free("MenuItems")
    /\ db' = [db EXCEPT !.MenuItems =
                Put(@, id, [venue |-> req[w].arg.venue, price |-> req[w].arg.price,
                            active |-> 1])]
    /\ Written(w)
    /\ UNCHANGED writes

(* create_section: the INSERT; UNIQUE (venue_id, code) makes it 409. *)
InsertSection(w, id) ==
    /\ req[w].pc = "insert" /\ req[w].kind = "create_section"
    /\ id \in Free("VenueSections")
    /\ \/ /\ Coded(req[w].arg.venue, req[w].arg.code) # {}
          /\ Finish(w)
          /\ UNCHANGED db
       \/ /\ Coded(req[w].arg.venue, req[w].arg.code) = {}
          /\ db' = [db EXCEPT !.VenueSections = Put(@, id, req[w].arg)]
          /\ Written(w)
    /\ UNCHANGED writes

(* update_venue, update_menu_item, update_section: the row as it is. *)
ReadRow(w) ==
    /\ req[w].pc = "read"
    /\ LET t == TableOf[req[w].kind]
           id == req[w].arg.id
       IN IF id \in DOMAIN db[t]
          THEN req' = [req EXCEPT ![w] = [@ EXCEPT !.pc = "write", !.row = db[t][id]]]
          ELSE Finish(w)
    /\ UNCHANGED <<db, writes>>

(* The UPDATE writes every column but the key and the venue. *)
WriteRow(w, t) ==
    /\ db' = [db EXCEPT ![t] = Put(@, req[w].arg.id, Merge(req[w].row, req[w].arg.patch))]
    /\ Written(w)
    /\ UNCHANGED writes

UpdateVenue(w) ==
    /\ req[w].pc = "write" /\ req[w].kind = "update_venue"
    /\ WriteRow(w, "Venues")

UpdateMenuItem(w) ==
    /\ req[w].pc = "write" /\ req[w].kind = "update_menu_item"
    /\ WriteRow(w, "MenuItems")

(* A section whose new code is taken is an error of the driver. *)
UpdateSection(w) ==
    /\ req[w].pc = "write" /\ req[w].kind = "update_section"
    /\ LET new == Merge(req[w].row, req[w].arg.patch)
           clash == Coded(new.venue, new.code) \ {req[w].arg.id} # {}
       IN \/ clash /\ Finish(w) /\ UNCHANGED <<db, writes>>
          \/ ~clash /\ WriteRow(w, "VenueSections")

(* The SELECT that makes the answer to a create or an update. *)
ReRead(w) ==
    /\ req[w].pc = "reread"
    /\ Finish(w)
    /\ UNCHANGED <<db, writes>>

(* A statement fails: 500, also after the row was written. *)
Fail(w) ==
    /\ req[w].pc \notin {"idle", "done"}
    /\ Finish(w)
    /\ UNCHANGED <<db, writes>>

Reply(w) ==
    /\ req[w].pc = "done"
    /\ Finish(w)
    /\ UNCHANGED <<db, writes>>
------------------------------------------------------------------------------
AllKinds == {"place_order"} \cup Reads \cup Creates \cup Updates

CatalogNext ==
    \E w \in Workers :
        \/ \E u \in Users, k \in AllKinds : \E a \in Args(k) : Begin(w, u, k, a)
        \/ ReadVenue(w) \/ ReadItem(w) \/ ReadSection(w) \/ List(w)
        \/ \E id \in OrderIds : PlaceOrder(w, id)
        \/ \E id \in VenueIds, head \in Heads : CheckSlug(w, id, head)
        \/ InsertVenue(w) \/ CheckVenue(w)
        \/ \E id \in ItemIds : InsertItem(w, id)
        \/ \E id \in SectionIds : InsertSection(w, id)
        \/ ReadRow(w) \/ UpdateVenue(w) \/ UpdateMenuItem(w) \/ UpdateSection(w)
        \/ ReRead(w) \/ Fail(w) \/ Reply(w)

CatalogSpec == CatalogInit /\ [][CatalogNext]_catalogVars
------------------------------------------------------------------------------
CatalogPCs == {"idle", "venue", "item", "section", "order", "list", "slug", "insert",
        "exists", "read", "write", "reread", "done"}

Arguments == {Idle.arg} \cup UNION {Args(k) : k \in AllKinds}

RequestStates ==
    [pc : CatalogPCs, kind : AllKinds \cup {None}, user : Users \cup {None},
     arg : Arguments, venue : VenueIds \cup {None}, item : ItemIds \cup {None},
     mode : Modes \cup {None}, price : Prices \cup {None},
     section : SectionIds \cup {None}, delivery : Flags \cup {None},
     row : Venues \cup MenuItems \cup Sections \cup {None},
     slug : AllSlugs \cup {None},
     seen : SUBSET (VenueIds \cup ItemIds \cup SectionIds \cup OrderIds),
     dirty : BOOLEAN]

CatalogTypeOK ==
    /\ DOMAIN db = Tables \cup {"Orders"}
    /\ \A t \in Tables : /\ DOMAIN db[t] \subseteq Ids[t]
                         /\ \A id \in DOMAIN db[t] : db[t][id] \in Rows[t]
    /\ DOMAIN db.Orders \subseteq OrderIds
    /\ \A o \in DOMAIN db.Orders : db.Orders[o] \in Orders
    /\ req \in [Workers -> RequestStates]
    /\ writes \in 0..MaxWrites

(* An order names an item and a section of its own venue, whatever was      *)
(* written while it was placed; no two sections of a venue share a code and *)
(* no two venues a slug, so that what an order's names stand for is certain.*)
OrdersFitTheirVenue ==
    /\ \A o \in DOMAIN db.Orders :
          LET order == db.Orders[o]
          IN /\ order.venue \in DOMAIN db.Venues
             /\ order.item \in DOMAIN db.MenuItems
             /\ order.section \in SectionsOf(order.venue)
             /\ db.MenuItems[order.item].venue = order.venue
    /\ \A v \in VenueIds, c \in Codes : Cardinality(Coded(v, c)) <= 1
    /\ \A u, v \in DOMAIN db.Venues : db.Venues[u].slug = db.Venues[v].slug => u = v

(* A request that no write overtook is answered from the catalogue as it    *)
(* stands: what it lists and what it charges, its several statements        *)
(* notwithstanding.                                                         *)
QuietAnswer(w) ==
    LET r == req[w]
    IN (r.pc = "done" /\ ~r.dirty) =>
         /\ r.kind \in {"active_menu", "active_sections"} =>
               /\ r.venue \in ActiveVenue(r.arg.key)
               /\ r.seen = Listed(w)
         /\ r.kind = "place_order" =>
               \A o \in r.seen :
                  LET order == db.Orders[o]
                      v == db.Venues[order.venue]
                      s == db.VenueSections[order.section]
                  IN /\ order.user = r.user
                     /\ order.venue \in ActiveVenue(r.arg.key)
                     /\ v.active = 1 /\ db.MenuItems[order.item].active = 1
                     /\ order.total = db.MenuItems[order.item].price * r.arg.qty
                     /\ order.section \in Coded(order.venue, r.arg.code)
                     /\ order.deliver <=> \/ v.mode = "all"
                                          \/ v.mode = "premium" /\ s.delivery = 1

QuietAnswersAreCurrent == \A w \in Workers : QuietAnswer(w)

(* A column of a row changes only by an update of that row that names it,   *)
(* or that another write overtook between its SELECT and its UPDATE.        *)
LostOnlyByOverlap ==
    [][\A t \in Tables : \A id \in DOMAIN db[t] :
          /\ id \in DOMAIN db'[t]
          /\ \A c \in DOMAIN db[t][id] :
                db'[t][id][c] # db[t][id][c] =>
                   \E w \in Workers :
                      /\ req[w].pc = "write" /\ req'[w].pc = "reread"
                      /\ TableOf[req[w].kind] = t /\ req[w].arg.id = id
                      /\ c \in DOMAIN req[w].arg.patch \/ req[w].dirty]_db

(* A venue whose slug is free, with no write between the SELECT and the     *)
(* INSERT, is created under it; it gets a suffix only when the slug is      *)
(* another venue's.  Without an overlap a refusal therefore needs two       *)
(* venues: one has the slug asked for, one the same slug with this suffix,  *)
(* by an equal head of 6 characters or because a body named it so.          *)
RefusedOnlyByOverlap ==
    [][\A w \in Workers :
          LET asked == req[w].arg.slug
              slug == req[w].slug
          IN InsertVenue(w) =>
               /\ slug # asked => Taken(asked)
               /\ req'[w].pc = "idle" => req[w].dirty \/ slug # asked]_catalogVars
------------------------------------------------------------------------------
(* What the comment on update_venue says: omitted fields stay as stored.    *)
(* The UPDATE writes them back as they were when the row was read.          *)
OmittedFieldsStay ==
    [][\A w \in Workers : \A id \in DOMAIN db.Venues :
          (/\ req[w].pc = "write" /\ req'[w].pc = "reread"
           /\ req[w].kind = "update_venue" /\ req[w].arg.id = id)
          => \A c \in DOMAIN db.Venues[id] \ DOMAIN req[w].arg.patch :
                db'.Venues[id][c] = db.Venues[id][c]]_catalogVars
==============================================================================
