----------------------------- MODULE ScanFilter -----------------------------
(***************************************************************************)
(* The scan filters (src/nrf_hal/scan.c) and the search of this program     *)
(* that uses them (scan_work_handler, src/gopro_ble_discovery.c).           *)
(*                                                                         *)
(* The client of the filters is a parameter: "search" is this program, with *)
(* its bonds and its connection; "any" is a client that calls the interface *)
(* of scan.h in any order.  The stack is external: it delivers advertising  *)
(* reports while it scans.  The handler runs on the cooperative system work *)
(* queue and waits only for the answers of the controller, during which     *)
(* nothing it reads or writes is in use; it is one action, and so is a      *)
(* report.  The block list and the connection attempts filter are not built *)
(* (their CONFIG_ symbols are not set).                                     *)
(***************************************************************************)
EXTENDS Naturals, Sequences, FiniteSets, SequencesExt

CONSTANTS
  Clients,     \* the clients to consider, a subset of {"search", "any"}
  Devices,     \* the addresses of the advertisers
  Cameras,     \* those that advertise BT_UUID_GOPRO_SERVICE
  Capacity,    \* CONFIG_BT_SCAN_<kind>_CNT, by kind
  MaxBonds,    \* CONFIG_BT_MAX_PAIRED
  Texts,       \* names and manufacturer data, as sequences
  Uuids,       \* service UUIDs, GoPro among them
  Appearances, \* appearance values; Malformed stands for data of a wrong length
  MaxFilters,  \* bound: filters a client "any" sets at a time
  MaxEnabled,  \* bound: kinds a client "any" enables at a time
  Reports,     \* bound: the reports the verdict is compared for
  Faults       \* "hci": a call into the controller may return an error

CONSTANTS GoPro, Malformed, NoDevice

NameKinds == {"name", "short_name"}
Kinds == NameKinds \cup {"addr", "uuid", "appearance", "manufacturer"}

ASSUME ScanConstants ==
  /\ Clients \subseteq {"search", "any"}
  /\ Cameras \subseteq Devices /\ NoDevice \notin Devices
  /\ Capacity \in [Kinds -> Nat] /\ Capacity["addr"] >= 1 /\ Capacity["uuid"] >= 1
  /\ MaxBonds \in Nat \ {0}
  /\ GoPro \in Uuids /\ Malformed \notin Appearances
  /\ Faults \subseteq {"hci"}
  /\ \A r \in Reports : /\ Len(r.ad) \in Nat
                       /\ \A i \in 1..Len(r.ad) : r.ad[i].kind \in Kinds \ {"addr"}

VARIABLES
  client,    \* who uses the filters
  table,     \* per kind, the filters set: the entries below cnt
  memory,    \* per kind of name, the text each entry of the array holds
  enabled,   \* the kinds enabled
  all_mode,  \* scan_filters.all_mode
  scanning,  \* the controller scans
  due,       \* scan_work is scheduled
  bonds,     \* the bonded devices, the oldest first
  link,      \* default_conn: its device and state
  sought,    \* history: the devices bonded when the search was last set up
  failed     \* history: a call into the controller has failed

filters == <<table, memory, enabled, all_mode>>
search  == <<scanning, due, bonds, link, sought, failed>>
vars    == <<client, filters, search>>

-----------------------------------------------------------------------------
(* Types *)

\* What a client sets a filter to.  Of a short name, min_len characters must agree.
Names == [text : Texts, min_len : Nat]
Target == [name |-> Names, short_name |-> Names, addr |-> Devices, uuid |-> Uuids,
           appearance |-> Appearances, manufacturer |-> Texts]

TypeOK ==
  /\ client \in Clients
  /\ DOMAIN table = Kinds
  /\ \A k \in Kinds : table[k] \in Seq(Target[k]) /\ Len(table[k]) <= Capacity[k]
  /\ DOMAIN memory = NameKinds
  /\ \A k \in NameKinds : DOMAIN memory[k] = 1..Capacity[k]
  /\ enabled \subseteq Kinds /\ all_mode \in BOOLEAN
  /\ scanning \in BOOLEAN /\ due \in BOOLEAN
  /\ bonds \in Seq(Devices) /\ Len(bonds) <= MaxBonds
  /\ link \in [peer : Devices \cup {NoDevice}, st : {"none", "creating", "up"}]
  /\ sought \subseteq Devices /\ failed \in BOOLEAN

NoLink == [peer |-> NoDevice, st |-> "none"]

\* bt_scan_init, and settings_load with the bonds of an earlier run.
Init ==
  /\ client \in Clients
  /\ table = [k \in Kinds |-> <<>>]
  /\ memory = [k \in NameKinds |-> [i \in 1..Capacity[k] |-> <<>>]]
  /\ enabled = {} /\ all_mode = FALSE
  /\ scanning = FALSE /\ due = (client = "search")
  /\ bonds \in {<<>>} \cup (IF client = "search" THEN {<<c>> : c \in Cameras} ELSE {})
  /\ link = NoLink /\ sought = {} /\ failed = FALSE

-----------------------------------------------------------------------------
(* Setting filters *)

StoreTooMany(t, k, x, valid, duplicate) ==
  LET room == Len(t[k]) <= Capacity[k]
  IN  [ok |-> room /\ valid,
       table |-> IF room /\ valid /\ ~duplicate THEN [t EXCEPT ![k] = Append(@, x)] ELSE t]

\* The result of adding x to the filters t of kind k: it is refused (-ENOMEM,
\* -EINVAL), there already, or stored behind the others.
Store(t, k, x, valid, duplicate) ==
  LET room == Len(t[k]) < Capacity[k]
  IN  [ok |-> room /\ valid,
       table |-> IF room /\ valid /\ ~duplicate THEN [t EXCEPT ![k] = Append(@, x)] ELSE t]

scan_name_filter_add(t, x) ==
  Store(t, "name", x, x.text # <<>>,
        \E i \in 1..Len(t["name"]) : memory["name"][i] = x.text)

scan_short_name_filter_add(t, x) ==
  Store(t, "short_name", x, x.text # <<>>,
        \E i \in 1..Len(t["short_name"]) : memory["short_name"][i] = x.text)

scan_addr_filter_add(t, x) == Store(t, "addr", x, TRUE, \E i \in 1..Len(t["addr"]) : t["addr"][i] = x)

scan_uuid_filter_add(t, x) == Store(t, "uuid", x, TRUE, \E i \in 1..Len(t["uuid"]) : t["uuid"][i] = x)

scan_appearance_filter_add(t, x) ==
  Store(t, "appearance", x, TRUE, \E i \in 1..Len(t["appearance"]) : t["appearance"][i] = x)

\* Data that begin with those of an earlier filter count as its duplicate.
scan_manufacturer_data_filter_add(t, x) ==
  Store(t, "manufacturer", x, x # <<>>,
        \E i \in 1..Len(t["manufacturer"]) : IsPrefix(t["manufacturer"][i], x))

Added(t, k, x) ==
  CASE k = "name" -> scan_name_filter_add(t, x)
    [] k = "short_name" -> scan_short_name_filter_add(t, x)
    [] k = "addr" -> scan_addr_filter_add(t, x)
    [] k = "uuid" -> scan_uuid_filter_add(t, x)
    [] k = "appearance" -> scan_appearance_filter_add(t, x)
    [] k = "manufacturer" -> scan_manufacturer_data_filter_add(t, x)

\* memcpy of a name without its terminating zero: the rest of a longer name that the
\* entry held before remains.
Overlay(old, new) == new \o SubSeq(old, Len(new) + 1, Len(old))

bt_scan_filter_add(k, x) ==
  LET t == Added(table, k, x).table
  IN  /\ table' = t
      /\ memory' = IF k \in NameKinds /\ t # table
                   THEN [memory EXCEPT ![k][Len(t[k])] = Overlay(@, x.text)] ELSE memory
      /\ UNCHANGED <<enabled, all_mode>>

RemovedButAddr == [k \in Kinds |-> IF k = "addr" THEN table[k] ELSE <<>>]

\* bt_scan_filter_remove_all: the counters only; the kinds stay enabled.
Removed == [k \in Kinds |-> <<>>]

bt_scan_filter_remove_all == table' = Removed /\ UNCHANGED <<memory, enabled, all_mode>>

\* A mode without a kind is refused.
bt_scan_filter_enable(mode, match_all) ==
  /\ enabled' = IF mode = {} THEN enabled ELSE mode
  /\ all_mode' = IF mode = {} THEN all_mode ELSE match_all

bt_scan_filter_disable == enabled' = {} /\ UNCHANGED <<table, memory, all_mode>>

-----------------------------------------------------------------------------
(* Matching a report: the address of the advertiser and the elements of its data *)

is_filter_enabled(k) == Capacity[k] > 0 /\ k \in enabled

check_addr(a) == \E i \in 1..Len(table["addr"]) : table["addr"][i] = a

name_check(data) == \E i \in 1..Len(table["name"]) : IsPrefix(data, memory["name"][i])

short_name_check(data) ==
  \E i \in 1..Len(table["short_name"]) :
    /\ Len(data) >= table["short_name"][i].min_len
    /\ IsPrefix(data, memory["short_name"][i])

UuidOneIsEnough(data) == \E i \in 1..Len(table["uuid"]) : table["uuid"][i] \in data

\* Data are the set of UUIDs of one element; with all_mode, it must have all of them.
uuid_check(data) ==
  IF all_mode THEN \A i \in 1..Len(table["uuid"]) : table["uuid"][i] \in data
  ELSE \E i \in 1..Len(table["uuid"]) : table["uuid"][i] \in data

appearance_check(data) == \E i \in 1..Len(table["appearance"]) : table["appearance"][i] = data

manufacturer_data_check(data) ==
  \E i \in 1..Len(table["manufacturer"]) : IsPrefix(table["manufacturer"][i], data)

\* Of the types of data, the SOME and ALL lists of UUIDs of each width are "uuid".
adv_data_found(e) ==
  /\ is_filter_enabled(e.kind)
  /\ CASE e.kind = "name" -> name_check(e.data)
       [] e.kind = "short_name" -> short_name_check(e.data)
       [] e.kind = "uuid" -> uuid_check(e.data)
       [] e.kind = "appearance" -> appearance_check(e.data)
       [] e.kind = "manufacturer" -> manufacturer_data_check(e.data)

AddrMatches(r) == is_filter_enabled("addr") /\ check_addr(r.addr)

filter_match_cnt(r) ==
  Cardinality({i \in 1..Len(r.ad) : adv_data_found(r.ad[i])}) + (IF AddrMatches(r) THEN 1 ELSE 0)

\* check_enabled_filters
filter_cnt == Cardinality({k \in Kinds : is_filter_enabled(k)})

\* scan_recv and filter_state_check: the client hears of a match.
Matched(r) ==
  IF all_mode THEN filter_match_cnt(r) = filter_cnt ELSE filter_match_cnt(r) > 0

-----------------------------------------------------------------------------
(* A client that uses the interface in any order *)

Settings(k) ==
  CASE k = "name" -> [text : Texts, min_len : {0}]
    [] k = "short_name" -> [text : Texts, min_len : {1, 2}]
    [] OTHER -> Target[k]

AnyAdd ==
  \E k \in Kinds : \E x \in Settings(k) :
    /\ MaxFilters > Len(table["name"]) + Len(table["short_name"]) + Len(table["addr"])
                    + Len(table["uuid"]) + Len(table["appearance"]) + Len(table["manufacturer"])
    /\ bt_scan_filter_add(k, x)

AnyEnable ==
  \E mode \in {S \in SUBSET Kinds : Cardinality(S) <= MaxEnabled} : \E match_all \in BOOLEAN :
    bt_scan_filter_enable(mode, match_all) /\ UNCHANGED <<table, memory>>

AnyClient ==
  /\ client = "any"
  /\ AnyAdd \/ AnyEnable \/ bt_scan_filter_remove_all \/ bt_scan_filter_disable
  /\ UNCHANGED <<client, search>>

-----------------------------------------------------------------------------
(* The search of this program *)

try_add_address_filter(t, d) == IF d = link.peer THEN t ELSE scan_addr_filter_add(t, d).table

Bonded == ToSet(bonds)

\* The bonds the address filters can take, and those that are not linked.
Sought == {bonds[i] : i \in {j \in 1..Len(bonds) : j <= Capacity["addr"]}} \ {link.peer}

\* scan_work_handler: a failing call of the controller, or a refused UUID filter, ends
\* it and nothing schedules it again.
scan_work_handler ==
  /\ client = "search" /\ due
  /\ due' = FALSE
  /\ \/ /\ "hci" \in Faults
        /\ failed' = TRUE
        /\ UNCHANGED <<filters, scanning, sought>>
     \/ LET t    == FoldLeft(try_add_address_filter, Removed, bonds)
            addr == t["addr"] # <<>>
            u    == scan_uuid_filter_add(t, GoPro)
        IN  /\ table' = IF addr THEN t ELSE u.table
            /\ IF addr \/ u.ok
               THEN /\ bt_scan_filter_enable(IF addr THEN {"addr"} ELSE {"uuid"}, FALSE)
                    /\ \/ scanning' = TRUE /\ UNCHANGED failed
                       \/ "hci" \in Faults /\ scanning' = FALSE /\ failed' = TRUE
               ELSE scanning' = FALSE /\ UNCHANGED <<enabled, all_mode, failed>>
            /\ sought' = Sought
            /\ UNCHANGED memory
  /\ UNCHANGED <<client, bonds, link>>

\* An advertisement of d: the UUIDs of its services.
Advert(d) ==
  [addr |-> d,
   ad |-> <<[kind |-> "uuid", data |-> IF d \in Cameras THEN {GoPro} ELSE Uuids \ {GoPro}]>>]

\* ble_connect on a match whose camera can be entered; a failing call of the
\* controller is dropped by eir_found.
ble_connect(d) ==
  \/ /\ scanning' = FALSE /\ link' = [peer |-> d, st |-> "creating"]
     /\ UNCHANGED failed
  \/ /\ "hci" \in Faults
     /\ scanning' \in BOOLEAN /\ failed' = TRUE
     /\ UNCHANGED link

\* scan_filter_match; scan_filter_no_match does nothing.
Report(d) ==
  /\ client = "search" /\ scanning /\ link = NoLink
  /\ Matched(Advert(d))
  /\ ble_connect(d)
  /\ UNCHANGED <<client, filters, due, bonds, sought>>

Connected ==
  /\ link.st = "creating"
  /\ link' = [link EXCEPT !.st = "up"]
  /\ UNCHANGED <<client, filters, scanning, due, bonds, sought, failed>>

\* pairing_complete: with CONFIG_BT_KEYS_OVERWRITE_OLDEST a new bond takes the place of
\* the oldest.
Paired ==
  /\ link.st = "up" /\ link.peer \notin Bonded
  /\ bonds' = Append(IF Len(bonds) = MaxBonds THEN Tail(bonds) ELSE bonds, link.peer)
  /\ UNCHANGED <<client, filters, scanning, due, link, sought, failed>>

\* connected with an error, and disconnected: the search is scheduled again.
LinkEnds ==
  /\ link # NoLink
  /\ link' = NoLink /\ due' = TRUE
  /\ UNCHANGED <<client, filters, scanning, bonds, sought, failed>>

\* gopro_ctrl_parse, command 0xDA: bt_unpair(BT_ADDR_LE_ANY).
Unpair ==
  /\ client = "search" /\ bonds # <<>>
  /\ bonds' = <<>>
  /\ UNCHANGED <<client, filters, scanning, due, link, sought, failed>>

Next ==
  \/ AnyClient
  \/ scan_work_handler
  \/ \E d \in Devices : Report(d)
  \/ Connected
  \/ Paired
  \/ LinkEnds
  \/ Unpair

Spec == Init /\ [][Next]_vars

-----------------------------------------------------------------------------
(* Properties *)

\* What scan.h says of a report.  A kind is matched by the data of the report, with
\* match_all only if it has each of the UUIDs; a kind that is not set matches nothing.
Fits(e) ==
  LET set == ToSet(table[e.kind])
  IN  set # {} /\ CASE e.kind = "name" -> \E x \in set : IsPrefix(e.data, x.text)
                    [] e.kind = "short_name" ->
                         \E x \in set : IsPrefix(e.data, x.text) /\ Len(e.data) >= x.min_len
                    [] e.kind = "uuid" ->
                         IF all_mode THEN set \subseteq e.data ELSE set \cap e.data # {}
                    [] e.kind = "appearance" -> e.data \in set
                    [] e.kind = "manufacturer" -> \E x \in set : IsPrefix(x, e.data)

OneFits(r, k) == \E i \in 1..Len(r.ad) : r.ad[i].kind = k /\ Fits(r.ad[i])

\* The UUIDs may be in several elements of a report.
AllUuids(r) ==
  /\ table["uuid"] # <<>>
  /\ ToSet(table["uuid"]) \subseteq
       UNION {r.ad[i].data : i \in {j \in 1..Len(r.ad) : r.ad[j].kind = "uuid"}}

Meets(r, k) ==
  IF k = "addr" THEN r.addr \in ToSet(table["addr"])
  ELSE OneFits(r, k) \/ (k = "uuid" /\ all_mode /\ AllUuids(r))

Active == {k \in enabled : Capacity[k] > 0}

\* One of the enabled kinds must be matched, or with match_all each of them; with no
\* kind enabled every device goes to filter_no_match.
Documented(r) ==
  /\ Active # {}
  /\ IF all_mode THEN \A k \in Active : Meets(r, k) ELSE \E k \in Active : Meets(r, k)

\* No entry of a name holds the rest of an earlier, longer one.
NoTails ==
  \A k \in NameKinds : \A i \in 1..Len(table[k]) : memory[k][i] = table[k][i].text

\* Where the code is not what scan.h says, all with match_all:
\* bt_scan_filter_disable keeps all_mode, and zero matches are then as many as zero
\* kinds; any list of UUIDs has all of no UUIDs;
NothingSought == Active = {} \/ ("uuid" \in Active /\ table["uuid"] = <<>>)
\* each matching element counts as a kind, so two of one kind stand for another;
CountedTwice(r) ==
  \E i, j \in 1..Len(r.ad) :
    i # j /\ r.ad[i].kind = r.ad[j].kind /\ r.ad[i].kind \in Active /\ Fits(r.ad[i]) /\ Fits(r.ad[j])
\* and the UUIDs are looked for in each element on its own.
Spread(r) == "uuid" \in Active /\ AllUuids(r) /\ ~OneFits(r, "uuid")

Diverges(r) == all_mode /\ (NothingSought \/ CountedTwice(r) \/ Spread(r))

\* For every use of the interface the verdict on a report is the documented one, but for
\* the three cases of match_all above, and for a name entry that keeps the rest of a
\* longer name and matches that too (scan_recv, filter_state_check; scan.h:368-370,
\* scan.h:463-467, scan.h:477-480).
VerdictIsDocumented ==
  NoTails => \A r \in Reports : Diverges(r) \/ (Matched(r) <=> Documented(r))

\* The search of this program goes on until a camera is found, unless the controller
\* fails: setting the filters up is never refused, however often links and bonds have
\* come and gone.  What it finds are the cameras bonded when it was set up, if there
\* are any, and all cameras otherwise, but no other device.
SearchTargets ==
  client = "search" =>
    /\ due \/ scanning \/ link # NoLink \/ failed
    /\ scanning => {d \in Devices : Matched(Advert(d))} = IF sought = {} THEN Cameras ELSE sought
=============================================================================
