---------------------------------- MODULE Seed ----------------------------------
(***************************************************************************)
(* manage.py seed (shop/management/commands/seed.py) on a shop that is     *)
(* being edited and sold from, run again and again and over itself: one    *)
(* transaction that gets or creates categories, products, the superuser    *)
(* and the demo customers, and gives a customer without orders two.  The   *)
(* database is PostgreSQL at READ COMMITTED: a run sees what is committed  *)
(* and what it wrote, and waits for a row that another run has written.    *)
(* The shop edits, moves and sells products meanwhile; it deletes none, so *)
(* what a save does to a row that is gone is not explored.                 *)
(***************************************************************************)
EXTENDS Integers, FiniteSets

CONSTANTS
  Runs,          \* processes that run the command
  NumRows,       \* SEED_ROWS
  Home,          \* the category of each of them
  Elsewhere,     \* a category of no seeded product
  NumCustomers,  \* DEMO_CUSTOMERS
  NoStock,       \* stock is NULL: not tracked
  Stocked,       \* stock of the product that is there at the start
  MaxProducts, MaxEdits, MaxSeeds   \* bounds: product ids, edits and sales, runs

ASSUME SeedAssumption ==
  /\ {NumRows, NumCustomers, Stocked, MaxProducts, MaxEdits, MaxSeeds} \subseteq Nat
  /\ NoStock \notin Nat
  /\ NumRows > 0 /\ MaxProducts > 0 /\ Elsewhere \notin {Home[r] : r \in 1..NumRows}

VARIABLES
  rooms,      \* committed categories
  goods,      \* committed products, by id
  people,     \* committed users: 0 is the superuser, c > 0 a demo customer
  samples,    \* committed pairs of sample orders of each customer
  run,        \* each run: its options, how far it is, the product it holds
  wrote,      \* what each run has written and not committed
  sold,       \* history: units of each product that were sold
  mishaps,    \* history: "overlap" of two runs, "moved in", images saved
  ids, edits, seeds

seedVars == <<rooms, goods, people, samples, run, wrote, sold, mishaps, ids, edits, seeds>>

SeedRow(r) ==
  [row |-> r, room |-> Home[r], asSeeded |-> TRUE, available |-> TRUE, stock |-> NoStock]

Off == [point |-> "off", index |-> 0, images |-> FALSE, superuser |-> FALSE, demo |-> FALSE,
        held |-> 0, read |-> SeedRow(1)]
Nothing == [rooms |-> {}, goods |-> <<>>, people |-> {}, samples |-> {}]

\* The rows of one table, with new versions of some of them and new ones.
Over(new, old) ==
  [i \in DOMAIN new \cup DOMAIN old |-> IF i \in DOMAIN new THEN new[i] ELSE old[i]]

\* The shop is empty, or staff have made the categories, or they have kept of an earlier
\* run its categories, its users without their orders and one product, and stocked it.
SeedInit ==
  /\ \/ rooms = {} /\ goods = <<>> /\ people = {}
     \/ rooms = {Home[r] : r \in 1..NumRows} /\ goods = <<>> /\ people = {}
     \/ /\ rooms = {Home[r] : r \in 1..NumRows}
        /\ goods = [i \in {1} |-> [SeedRow(1) EXCEPT !.stock = Stocked]]
        /\ people = 0..NumCustomers
  /\ samples = [c \in 1..NumCustomers |-> 0]
  /\ run = [s \in Runs |-> Off] /\ wrote = [s \in Runs |-> Nothing]
  /\ sold = [i \in 1..MaxProducts |-> 0]
  /\ mishaps = {} /\ ids = Cardinality(DOMAIN goods) /\ edits = 0 /\ seeds = 0

Seen(s) == Over(wrote[s].goods, goods)
Unlocked(s, i) == \A t \in Runs \ {s} : i \notin DOMAIN wrote[t].goods

StartSeed(s, images, superuser, demo) ==
  /\ run[s] = Off /\ seeds < MaxSeeds
  /\ seeds' = seeds + 1
  /\ run' = [run EXCEPT ![s] =
       [Off EXCEPT !.point = "category", !.index = 1, !.images = images,
                   !.superuser = superuser, !.demo = demo]]
  /\ mishaps' = mishaps \cup (IF \E t \in Runs : run[t] # Off THEN {"overlap"} ELSE {})
                        \cup (IF images THEN {"images"} ELSE {})
  /\ UNCHANGED <<rooms, goods, people, samples, wrote, sold, ids, edits>>

Advance(s, point, index) == [run EXCEPT ![s].point = point, ![s].index = index]

\* Category.objects.get_or_create: an INSERT waits for one of the same slug, which is
\* unique, and is a get when that one commits.
SeedCategory(s) ==
  LET c == Home[run[s].index] IN
  /\ run[s].point = "category"
  /\ \A t \in Runs \ {s} : c \notin wrote[t].rooms
  /\ wrote' = IF c \in rooms THEN wrote ELSE [wrote EXCEPT ![s].rooms = @ \cup {c}]
  /\ run' = IF run[s].index < NumRows THEN Advance(s, "category", run[s].index + 1)
            ELSE Advance(s, "product", 1)
  /\ UNCHANGED <<rooms, goods, people, samples, sold, mishaps, ids, edits, seeds>>

\* Product.objects.get_or_create: the pair (category, slug) is not unique.
FoundAsSeeded(s, r) ==   \* mutant: looked up by the name and the category
  {i \in DOMAIN Seen(s) : Seen(s)[i].row = r /\ Seen(s)[i].room = Home[r]
                          /\ Seen(s)[i].asSeeded}
Found(s, r) ==
  {i \in DOMAIN Seen(s) : Seen(s)[i].row = r /\ Seen(s)[i].room = Home[r]}

Hold(s, i, good) ==
  [run EXCEPT ![s].point = "update", ![s].held = i, ![s].read = good]

\* What the run has written, with one more row.
Write(s, i, good) == [wrote EXCEPT ![s].goods = Over([j \in {i} |-> good], @)]

GetProduct(s) ==
  LET r == run[s].index IN
  /\ run[s].point = "product"
  /\ \/ \E i \in Found(s, r) :
          /\ Found(s, r) = {i}
          /\ run' = Hold(s, i, Seen(s)[i]) /\ UNCHANGED <<wrote, ids>>
     \/ /\ Found(s, r) = {} /\ ids < MaxProducts
        /\ ids' = ids + 1
        /\ wrote' = Write(s, ids', SeedRow(r))
        /\ run' = Hold(s, ids', SeedRow(r))
  /\ UNCHANGED <<rooms, goods, people, samples, sold, mishaps, edits, seeds>>

\* product.save(update_fields=...): only the columns that differed when it was read.
UpdatedWhole(s) ==   \* mutant: save() without update_fields
  [run[s].read EXCEPT !.asSeeded = TRUE, !.available = TRUE]
Updated(s) ==
  LET now == Seen(s)[run[s].held] read == run[s].read IN
  [now EXCEPT !.asSeeded = now.asSeeded \/ ~read.asSeeded,
              !.available = now.available \/ ~read.available]

UpdateProduct(s) ==
  LET i == run[s].held read == run[s].read IN
  /\ run[s].point = "update"
  /\ IF read.asSeeded /\ read.available THEN wrote' = wrote
     ELSE /\ Unlocked(s, i) /\ i \in DOMAIN Seen(s)
          /\ wrote' = Write(s, i, Updated(s))
  /\ run' = [run EXCEPT ![s].point = "image",
                        ![s].read = [@ EXCEPT !.asSeeded = TRUE, !.available = TRUE]]
  /\ UNCHANGED <<rooms, goods, people, samples, sold, mishaps, ids, edits, seeds>>

\* product.image.save(..., save=True) saves every column as it was read.  Then the next
\* row, or the users.
SaveImage(s) ==
  /\ run[s].point = "image"
  /\ IF run[s].images
     THEN /\ Unlocked(s, run[s].held)
          /\ wrote' = Write(s, run[s].held, run[s].read)
     ELSE wrote' = wrote
  /\ run' = IF run[s].index < NumRows THEN Advance(s, "product", run[s].index + 1)
            ELSE Advance(s, "user", 0)
  /\ UNCHANGED <<rooms, goods, people, samples, sold, mishaps, ids, edits, seeds>>

-----------------------------------------------------------------------------
(* Users, whose names are unique *)

Wanted(s) == IF run[s].index = 0 THEN run[s].superuser ELSE run[s].demo

\* _seed_demo_customers returns at once when nothing is for sale.
NothingToOrder(s) ==
  run[s].index = 1 /\ \A i \in DOMAIN Seen(s) : ~Seen(s)[i].available

NextUser(s) ==
  IF run[s].index < NumCustomers THEN Advance(s, "user", run[s].index + 1)
  ELSE Advance(s, "commit", 0)

\* get_or_create and user.save(): from here to its end the run holds the user's row.
SavedUnlocked(s, c) == IF c \in people THEN {} ELSE {c}   \* mutant: get_or_create alone
SavedUser(s, c) == {c}

SeedUser(s) ==
  LET c == run[s].index IN
  /\ run[s].point = "user" /\ Wanted(s) /\ ~NothingToOrder(s)
  /\ \A t \in Runs \ {s} : c \notin wrote[t].people
  /\ wrote' = [wrote EXCEPT ![s].people = @ \cup SavedUser(s, c)]
  /\ run' = IF c = 0 THEN NextUser(s) ELSE Advance(s, "orders", c)
  /\ UNCHANGED <<rooms, goods, people, samples, sold, mishaps, ids, edits, seeds>>

SkipUser(s) ==
  /\ run[s].point = "user"
  /\ ~Wanted(s) \/ NothingToOrder(s)
  /\ run' = IF run[s].index = 0 THEN NextUser(s) ELSE Advance(s, "commit", 0)
  /\ UNCHANGED <<rooms, goods, people, samples, wrote, sold, mishaps, ids, edits, seeds>>

\* A paid and a pending order, unless the customer has one.
SampleOrders(s) ==
  LET c == run[s].index IN
  /\ run[s].point = "orders"
  /\ wrote' = IF samples[c] > 0 THEN wrote
              ELSE [wrote EXCEPT ![s].samples = @ \cup {c}]
  /\ run' = NextUser(s)
  /\ UNCHANGED <<rooms, goods, people, samples, sold, mishaps, ids, edits, seeds>>

CommitSeed(s) ==
  LET w == wrote[s] IN
  /\ run[s].point = "commit"
  /\ rooms' = rooms \cup w.rooms /\ goods' = Over(w.goods, goods)
  /\ people' = people \cup w.people
  /\ samples' = [c \in DOMAIN samples |-> samples[c] + (IF c \in w.samples THEN 1 ELSE 0)]
  /\ run' = [run EXCEPT ![s] = Off] /\ wrote' = [wrote EXCEPT ![s] = Nothing]
  /\ UNCHANGED <<sold, mishaps, ids, edits, seeds>>

\* MultipleObjectsReturned, any other error, a kill.
AbortSeed(s) ==
  /\ run[s] # Off
  /\ run' = [run EXCEPT ![s] = Off] /\ wrote' = [wrote EXCEPT ![s] = Nothing]
  /\ UNCHANGED <<rooms, goods, people, samples, sold, mishaps, ids, edits, seeds>>

-----------------------------------------------------------------------------
(* The shop meanwhile: one UPDATE of a row no run has written *)

EditShop(i, new) ==
  /\ edits < MaxEdits /\ edits' = edits + 1
  /\ \A s \in Runs : i \notin DOMAIN wrote[s].goods
  /\ goods' = [goods EXCEPT ![i] = new]
  /\ UNCHANGED <<rooms, people, samples, run, wrote, ids, seeds>>

Reword(i) == EditShop(i, [goods[i] EXCEPT !.asSeeded = FALSE]) /\ UNCHANGED <<sold, mishaps>>
Delist(i) == EditShop(i, [goods[i] EXCEPT !.available = FALSE]) /\ UNCHANGED <<sold, mishaps>>

Move(i, c) ==
  /\ c # goods[i].room
  /\ EditShop(i, [goods[i] EXCEPT !.room = c])
  /\ mishaps' = mishaps \cup (IF c = Home[goods[i].row] THEN {"moved in"} ELSE {})
  /\ UNCHANGED sold

\* decrement_for_order.
Sell(i) ==
  /\ goods[i].stock # NoStock /\ goods[i].stock # 0
  /\ EditShop(i, [goods[i] EXCEPT !.stock = @ - 1])
  /\ sold' = [sold EXCEPT ![i] = @ + 1]
  /\ UNCHANGED mishaps

SeedNext ==
  \/ \E s \in Runs :
       \/ \E images, superuser, demo \in BOOLEAN : StartSeed(s, images, superuser, demo)
       \/ SeedCategory(s) \/ GetProduct(s) \/ UpdateProduct(s) \/ SaveImage(s)
       \/ SeedUser(s) \/ SkipUser(s) \/ SampleOrders(s) \/ CommitSeed(s) \/ AbortSeed(s)
  \/ \E i \in DOMAIN goods :
       \/ Reword(i) \/ Delist(i) \/ Sell(i)
       \/ \E c \in {Home[goods[i].row], Elsewhere} : Move(i, c)

SeedSpec == SeedInit /\ [][SeedNext]_seedVars

-----------------------------------------------------------------------------
(* Properties *)

Points == {"off", "category", "product", "update", "image", "user", "orders", "commit"}
Rooms == {Home[r] : r \in 1..NumRows}
Good ==
  [row : 1..NumRows, room : Rooms \cup {Elsewhere},
   asSeeded : BOOLEAN, available : BOOLEAN, stock : 0..Stocked \cup {NoStock}]
RunState ==
  [point : Points, index : 0..NumRows \cup 0..NumCustomers,
   images : BOOLEAN, superuser : BOOLEAN, demo : BOOLEAN, held : 0..MaxProducts, read : Good]
Writes(rows) ==
  [rooms : SUBSET Rooms, goods : [rows -> Good], people : SUBSET (0..NumCustomers),
   samples : SUBSET (1..NumCustomers)]

\* Every product, committed or not, is a product, every run is at one of its points and
\* at a row or a customer that there is.
SeedTypeOK ==
  /\ rooms \subseteq Rooms /\ people \subseteq 0..NumCustomers
  /\ goods \in [DOMAIN goods -> Good] /\ DOMAIN goods \subseteq 1..ids
  /\ samples \in [1..NumCustomers -> Nat] /\ sold \in [1..MaxProducts -> Nat]
  /\ ids \in 0..MaxProducts
  /\ run \in [Runs -> RunState] /\ DOMAIN wrote = Runs
  /\ \A s \in Runs :
       /\ wrote[s] \in Writes(DOMAIN wrote[s].goods) /\ DOMAIN wrote[s].goods \subseteq 1..ids
       /\ run[s].point \in {"category", "product", "update", "image"} =>
            run[s].index \in 1..NumRows
       /\ run[s].point = "user" => run[s].index \in 0..NumCustomers
       /\ run[s].point = "orders" => run[s].index \in 1..NumCustomers
       /\ run[s].point \in {"update", "image"} => run[s].held \in DOMAIN Seen(s)

\* "Safe to run multiple times": however often it is run, stopped and run again on a
\* shop that changes, the command leaves one product for each of its rows, unless two
\* runs overlap or staff move a second one in; and even overlapping runs give a
\* customer their sample orders once.
SeededOnce ==
  /\ mishaps \cap {"overlap", "moved in"} = {} =>
       \A r \in 1..NumRows :
         Cardinality({i \in DOMAIN goods : goods[i].row = r /\ goods[i].room = Home[r]}) <= 1
  /\ \A c \in DOMAIN samples : samples[c] <= 1

\* Stock is nothing the command seeds: what was sold while it ran stays sold, as long as
\* it saves no image.
SeedKeepsStock ==
  "images" \notin mishaps =>
    \A i \in DOMAIN goods : goods[i].stock # NoStock => goods[i].stock + sold[i] = Stocked
=============================================================================
