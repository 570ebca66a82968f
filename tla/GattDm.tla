------------------------------- MODULE GattDm -------------------------------
(***************************************************************************)
(* The GATT discovery manager (src/nrf_hal/gatt_dm.c): it finds a service   *)
(* of the camera, then its attributes, then the values of its characteris-  *)
(* tics, in three procedures of the Bluetooth stack, and keeps what it      *)
(* found in a table of attributes and in heap chunks until its user         *)
(* releases them.                                                          *)
(*                                                                         *)
(* The stack's callbacks and the system work queue are cooperative threads: *)
(* a handler is one action.  The stack is external: it reports the          *)
(* attributes that match in the order of their handles, and ends a          *)
(* procedure, one that failed too, with a report of no attribute.  There    *)
(* is one connection object, so the comparison of discovery_callback with   *)
(* dm->conn cannot fail and is left out.                                    *)
(***************************************************************************)
EXTENDS Naturals, Sequences, FiniteSets

CONSTANTS
  MaxAttrs,    \* CONFIG_BT_GATT_DM_MAX_ATTRS
  ChunkWords,  \* CHUNK_DATA_SIZE in words of DATA_ALIGN bytes
  MaxHandles,  \* bound: attributes of the camera
  Faults       \* the failures the environment may show

FaultKinds == {"drop",   \* the link is lost
               "att",    \* the camera answers a request with an error
               "heap",   \* k_calloc returns NULL
               "queue"}  \* bt_gatt_discover fails on a link that is up

ASSUME DmConstants ==
  /\ MaxAttrs \in Nat \ {0}
  /\ ChunkWords \in Nat /\ ChunkWords >= 5
  /\ MaxHandles \in Nat \ {0}
  /\ Faults \subseteq FaultKinds

VARIABLES
  db,       \* the camera's attributes: their kinds, by handle
  up,       \* the link is up
  locked,   \* STATE_ATTRS_LOCKED
  pending,  \* STATE_ATTRS_RELEASE_PENDING
  params,   \* discover_params, with search_svc_by_uuid
  running,  \* the stack works on discover_params
  work,     \* discover_work is on the system work queue
  attrs,    \* attrs[0 .. cur_attr_id - 1]
  mem,      \* chunk_list and cur_chunk_len, and the chunks the heap has given out
  heard,    \* the callback the user has heard last
  broken,   \* history: the procedure under way has met a failure
  halted    \* the processor has faulted

peer  == <<db, up>>
flags == <<locked, pending>>
data  == <<attrs, mem>>
vars  == <<peer, flags, params, running, work, data, heard, broken, halted>>

-----------------------------------------------------------------------------
(* The camera *)

ServiceKinds == {"svcA", "svcB"}
Kinds == ServiceKinds \cup {"chrc", "val", "ccc"}

\* The service the user looks for, and the last handle there is (0xffff).
svc_uuid == "svcA"
LastHandle == MaxHandles + 1

\* Attribute tables: services, whose characteristics are a declaration, a value
\* and perhaps a client configuration.
Follows(k) == CASE k \in ServiceKinds -> ServiceKinds \cup {"chrc"}
                [] k = "chrc" -> {"val"}
                [] k = "val"  -> ServiceKinds \cup {"chrc", "ccc"}
                [] k = "ccc"  -> ServiceKinds \cup {"chrc"}

Databases ==
  UNION {{d \in [1..n -> Kinds] :
            /\ d[1] \in ServiceKinds /\ d[n] # "chrc"
            /\ \A h \in 1..(n - 1) : d[h + 1] \in Follows(d[h])} : n \in 1..MaxHandles}

\* The last handle of the service declared at h; that of the last service is the
\* last there is.
EndHandle(h) ==
  LET next == {g \in (h + 1)..Len(db) : db[g] \in ServiceKinds}
  IN  IF next = {} THEN LastHandle
      ELSE (CHOOSE g \in next : \A x \in next : g <= x) - 1

\* The attributes of the service declared at h, itself the first.
Members(h) == {g \in h..EndHandle(h) : g \in DOMAIN db}

\* What an attribute is called; each value has a UUID of its own.
Uuid(h) == <<db[h], IF db[h] = "val" THEN h ELSE 0>>

NoUuid == <<"none", 0>>

-----------------------------------------------------------------------------
(* Types *)

NoBlock == [chunk |-> 0, from |-> 0, len |-> 0]
Blocks  == [chunk : Nat, from : Nat, len : Nat]
Uuids   == (Kinds \cup {"none"}) \X Nat
Attrs   == [handle : Nat, kind : Kinds, at : Blocks, uuid : Uuids, val : Blocks]

Phases == {"none", "primary", "attribute", "characteristic"}

TypeOK ==
  /\ db \in Seq(Kinds) /\ up \in BOOLEAN
  /\ locked \in BOOLEAN /\ pending \in BOOLEAN
  /\ params \in [type : Phases, uuid : BOOLEAN, by_uuid : BOOLEAN,
                 start_handle : Nat, end_handle : Nat]
  /\ running \in BOOLEAN /\ work \in BOOLEAN
  /\ attrs \in Seq(Attrs) /\ Len(attrs) <= MaxAttrs
  /\ mem \in [chunks : Nat, used : 0..ChunkWords, heap : Nat]
  /\ heard \in {"none", "completed", "not_found", "error"}
  /\ broken \in BOOLEAN /\ halted \in BOOLEAN

Init ==
  /\ db \in Databases /\ up = TRUE
  /\ locked = FALSE /\ pending = FALSE
  /\ params = [type |-> "none", uuid |-> FALSE, by_uuid |-> FALSE,
               start_handle |-> 0, end_handle |-> 0]
  /\ running = FALSE /\ work = FALSE
  /\ attrs = <<>> /\ mem = [chunks |-> 0, used |-> 0, heap |-> 0]
  /\ heard = "none" /\ broken = FALSE /\ halted = FALSE

-----------------------------------------------------------------------------
(* Memory *)

\* The words of a UUID of 16 or 128 bits.
get_uuid_size(kind) == IF kind \in {"val", "svcB"} THEN 5 ELSE 1

\* There is room in the last chunk.
Fits(m, len) == m.chunks > 0 /\ m.used + len <= ChunkWords

\* The chunks after user_data_alloc.
user_data_alloc(m, len) ==
  IF Fits(m, len)
  THEN [m EXCEPT !.used = @ + len]
  ELSE [chunks |-> m.chunks + 1, used |-> len, heap |-> m.heap + 1]

\* The space it returned.
Space(m, len) ==
  LET n == user_data_alloc(m, len)
  IN  [chunk |-> n.chunks, from |-> n.used - len, len |-> len]

CallocFails(m, len) == "heap" \in Faults /\ ~Fits(m, len)

\* The length attr_store asks for: the attribute's UUID (a declaration's has 16
\* bits) and before it the value of a service or characteristic.
StoredWords(kind) == IF kind \in ServiceKinds \cup {"chrc"} THEN 3 ELSE get_uuid_size(kind)

\* The entry attr_store fills; the value of a service is filled at once, that of a
\* characteristic points to the UUID of its declaration for now.
attr_store(m, h, val) ==
  [handle |-> h, kind |-> db[h], at |-> Space(m, StoredWords(db[h])),
   uuid |-> CASE db[h] = "chrc" -> <<"chrc", 0>>
              [] db[h] \in ServiceKinds -> Uuid(h)
              [] OTHER -> NoUuid,
   val |-> val]

\* attr_store finds no entry left.
TableFullEarly == Len(attrs) + 1 >= MaxAttrs
TableFullLate  == Len(attrs) > MaxAttrs
TableFull == Len(attrs) >= MaxAttrs

svc_attr_memory_forget == attrs' = <<>> /\ mem' = [mem EXCEPT !.chunks = 0, !.used = 0]

\* uuid_store, for the UUID of a service's or a characteristic's value.
uuid_store(m, kind) == user_data_alloc(m, get_uuid_size(kind))

svc_attr_memory_release ==
  /\ attrs' = <<>>
  /\ mem' = [chunks |-> 0, used |-> 0, heap |-> mem.heap - mem.chunks]

-----------------------------------------------------------------------------
(* Lookups *)

\* Positions count from 1; 0 stands for NULL.
Least(S) == IF S = {} THEN 0 ELSE CHOOSE i \in S : \A j \in S : i <= j

attr_find_by_handle(handle) ==
  LET search[range \in (1..(Len(attrs) + 1)) \X (0..Len(attrs))] ==
        LET lower == range[1]
            upper == range[2]
            m == (lower + upper) \div 2
        IN  IF upper < lower THEN 0
            ELSE IF attrs[m].handle < handle THEN search[<<m + 1, upper>>]
            ELSE IF attrs[m].handle > handle THEN search[<<lower, m - 1>>]
            ELSE m
  IN  search[<<1, Len(attrs)>>]

bt_gatt_dm_char_next(i) == Least({j \in (i + 1)..Len(attrs) : attrs[j].kind = "chrc"})

\* From one characteristic to the next, the first one behind the service.
bt_gatt_dm_char_by_uuid(uuid) ==
  Least({i \in {bt_gatt_dm_char_next(j) : j \in 1..Len(attrs)} \ {0} : attrs[i].uuid = uuid})

bt_gatt_dm_attr_next(i) == IF i < Len(attrs) THEN i + 1 ELSE 0

DescNextPastCharacteristic(i) == bt_gatt_dm_attr_next(i)

bt_gatt_dm_desc_next(i) ==
  LET next == bt_gatt_dm_attr_next(i)
  IN  IF next # 0 /\ attrs[next].kind = "chrc" THEN 0 ELSE next

\* The loop goes from one descriptor to the next until it meets the UUID or no more.
bt_gatt_dm_desc_by_uuid(i, uuid) ==
  Least({j \in (i + 1)..Len(attrs) :
           /\ \A k \in i..(j - 1) : bt_gatt_dm_desc_next(k) = k + 1
           /\ Uuid(attrs[j].handle) = uuid})

-----------------------------------------------------------------------------
(* The end of a procedure *)

CompleteUnpended == heard' = "completed" /\ UNCHANGED <<flags, data>>

discovery_complete ==
  /\ pending' = TRUE /\ heard' = "completed"
  /\ UNCHANGED <<locked, data>>

\* discovery_complete_not_found, discovery_complete_error
CompleteWithout(answer) ==
  /\ svc_attr_memory_release
  /\ locked' = FALSE /\ heard' = answer
  /\ UNCHANGED pending

-----------------------------------------------------------------------------
(* The user *)

\* bt_gatt_discover returns an error: the link is gone, or the stack has no memory for
\* the request.
DiscoverFails == ~up \/ "queue" \in Faults

\* bt_gatt_dm_start for a service (by_uuid) or for any; with the manager locked,
\* or when the stack does not take the request, it is refused.
bt_gatt_dm_start(by_uuid) ==
  /\ ~halted /\ ~locked
  /\ params' = [type |-> "primary", uuid |-> by_uuid, by_uuid |-> by_uuid,
                start_handle |-> 1, end_handle |-> LastHandle]
  /\ attrs' = <<>> /\ mem' = [mem EXCEPT !.chunks = 0, !.used = 0]
  /\ work' = FALSE
  /\ \/ /\ up
        /\ locked' = TRUE /\ running' = TRUE /\ heard' = "none" /\ broken' = FALSE
     \/ /\ DiscoverFails
        /\ UNCHANGED <<locked, running, heard, broken>>
  /\ UNCHANGED <<peer, pending, halted>>

\* bt_gatt_dm_continue; it is refused while discover_params names a service, which
\* the search for attributes makes it forget.
bt_gatt_dm_continue ==
  /\ ~halted /\ ~locked
  /\ params.type # "none" /\ ~params.uuid
  /\ IF params.end_handle = LastHandle
     THEN /\ CompleteWithout("not_found")
          /\ UNCHANGED <<params, running, broken>>
     ELSE /\ params' = [params EXCEPT !.start_handle = params.end_handle + 1,
                                      !.end_handle = LastHandle,
                                      !.type = "primary", !.uuid = params.by_uuid]
          /\ \/ /\ up
                /\ locked' = TRUE /\ running' = TRUE
                /\ heard' = "none" /\ broken' = FALSE
                /\ UNCHANGED <<pending, data>>
             \/ /\ DiscoverFails
                /\ CompleteWithout("error") /\ broken' = TRUE /\ UNCHANGED running
  /\ UNCHANGED <<peer, work, halted>>

bt_gatt_dm_data_release ==
  /\ ~halted /\ pending
  /\ pending' = FALSE
  /\ work' = FALSE
  /\ svc_attr_memory_release
  /\ locked' = FALSE
  /\ UNCHANGED <<peer, params, running, heard, broken, halted>>

-----------------------------------------------------------------------------
(* The stack's reports *)

Matches(h) ==
  CASE params.type = "primary" -> IF params.uuid THEN db[h] = svc_uuid ELSE db[h] \in ServiceKinds
    [] params.type = "attribute" -> TRUE
    [] params.type = "characteristic" -> db[h] = "chrc"

Matching == {h \in params.start_handle..params.end_handle : h \in DOMAIN db /\ Matches(h)}

Nearest == CHOOSE h \in Matching : \A g \in Matching : h <= g

Reports(type) == running /\ ~halted /\ params.type = type

\* No attribute (any more): none matches, the link is lost, or the camera refuses.
NoAttr ==
  /\ up => Matching = {} \/ "att" \in Faults
  /\ broken' = (broken \/ (up /\ Matching # {}))

Attr == up /\ Matching # {}

discovery_process_service ==
  /\ Reports("primary")
  /\ running' = FALSE
  /\ \/ /\ NoAttr
        /\ CompleteWithout("not_found")
        /\ UNCHANGED <<params, work>>
     \/ /\ Attr
        /\ LET m1 == user_data_alloc(mem, StoredWords(db[Nearest]))
           IN  CallocFails(mem, StoredWords(db[Nearest])) \/ CallocFails(m1, get_uuid_size(db[Nearest]))
        /\ broken' = TRUE
        /\ CompleteWithout("error")
        /\ UNCHANGED <<params, work>>
     \/ /\ Attr
        /\ LET m1  == user_data_alloc(mem, StoredWords(db[Nearest]))
               len == get_uuid_size(db[Nearest])
           IN  /\ attrs' = <<attr_store(mem, Nearest, Space(m1, len))>>
               /\ mem' = uuid_store(m1, db[Nearest])
        /\ IF EndHandle(Nearest) = Nearest
           THEN /\ params' = [params EXCEPT !.end_handle = Nearest]
                /\ pending' = TRUE /\ heard' = "completed"
                /\ UNCHANGED work
           ELSE /\ params' = [params EXCEPT !.type = "attribute", !.uuid = FALSE,
                                            !.start_handle = Nearest + 1,
                                            !.end_handle = EndHandle(Nearest)]
                /\ work' = TRUE
                /\ UNCHANGED <<pending, heard>>
        /\ UNCHANGED <<locked, broken>>
  /\ UNCHANGED <<peer, halted>>

\* The declaration of a characteristic for which there is no room is used before the
\* result of attr_store is looked at.
discovery_process_attribute ==
  /\ Reports("attribute")
  /\ \/ /\ NoAttr
        /\ running' = FALSE
        /\ IF Len(attrs) > 1
           THEN /\ params' = [params EXCEPT !.type = "characteristic",
                                            !.start_handle = attrs[1].handle + 1]
                /\ work' = TRUE
                /\ UNCHANGED <<flags, data, heard>>
           ELSE discovery_complete /\ UNCHANGED <<params, work>>
        /\ UNCHANGED halted
     \/ /\ Attr
        /\ TableFull \/ CallocFails(mem, StoredWords(db[Nearest]))
        /\ broken' = (broken \/ ~TableFull)
        /\ running' = FALSE
        /\ IF db[Nearest] = "chrc"
           THEN halted' = TRUE /\ UNCHANGED <<flags, data, heard>>
           ELSE CompleteWithout("error") /\ UNCHANGED halted
        /\ UNCHANGED <<params, work>>
     \/ /\ Attr
        /\ ~TableFull
        /\ attrs' = Append(attrs, attr_store(mem, Nearest, NoBlock))
        /\ mem' = user_data_alloc(mem, StoredWords(db[Nearest]))
        /\ params' = [params EXCEPT !.start_handle = Nearest + 1]
        /\ UNCHANGED <<running, work, flags, heard, broken, halted>>
  /\ UNCHANGED peer

discovery_process_characteristic ==
  /\ Reports("characteristic")
  /\ \/ /\ NoAttr
        /\ running' = FALSE
        /\ discovery_complete
        /\ UNCHANGED params
     \/ /\ Attr
        /\ LET len == get_uuid_size("val")
           IN  attr_find_by_handle(Nearest) = 0 \/ CallocFails(mem, len)
        /\ running' = FALSE
        /\ broken' = (broken \/ attr_find_by_handle(Nearest) # 0)
        /\ CompleteWithout("error")
        /\ UNCHANGED params
     \/ /\ Attr
        /\ LET i   == attr_find_by_handle(Nearest)
               len == get_uuid_size("val")
           IN  /\ i # 0
               /\ attrs' = [attrs EXCEPT ![i].uuid = Uuid(Nearest + 1), ![i].val = Space(mem, len)]
               /\ mem' = uuid_store(mem, "val")
        /\ params' = [params EXCEPT !.start_handle = Nearest + 1]
        /\ UNCHANGED <<running, flags, heard, broken>>
  /\ UNCHANGED <<peer, work, halted>>

gatt_discover_work ==
  /\ work /\ ~halted
  /\ work' = FALSE
  /\ \/ /\ ~locked
        /\ UNCHANGED <<running, flags, data, heard, broken>>
     \/ /\ locked /\ up
        /\ running' = TRUE
        /\ UNCHANGED <<flags, data, heard, broken>>
     \/ /\ locked /\ DiscoverFails
        /\ CompleteWithout("error") /\ broken' = TRUE /\ UNCHANGED running
  /\ UNCHANGED <<peer, params, halted>>

-----------------------------------------------------------------------------
(* The link *)

LinkLost ==
  /\ "drop" \in Faults
  /\ up /\ ~halted
  /\ up' = FALSE /\ broken' = TRUE
  /\ UNCHANGED <<db, flags, params, running, work, data, heard, halted>>

\* The next link comes up after a search, which waits behind discover_work on the
\* system work queue.
LinkUp ==
  /\ ~up /\ ~running /\ ~work /\ ~halted
  /\ up' = TRUE
  /\ UNCHANGED <<db, flags, params, running, work, data, heard, broken, halted>>

discovery_callback ==
  \/ discovery_process_service
  \/ discovery_process_attribute
  \/ discovery_process_characteristic

Next ==
  \/ \E by_uuid \in BOOLEAN : bt_gatt_dm_start(by_uuid)
  \/ bt_gatt_dm_continue
  \/ bt_gatt_dm_data_release
  \/ discovery_callback
  \/ gatt_discover_work
  \/ LinkLost
  \/ LinkUp

Spec == Init /\ [][Next]_vars

\* The stack answers each request or times it out, and the work queue runs.
FairSpec == Spec /\ WF_vars(discovery_callback) /\ WF_vars(gatt_discover_work)

-----------------------------------------------------------------------------
(* Properties *)

\* The data of a procedure lie in the chunks of the list, apart from each other, and
\* the heap has given out exactly those chunks: none is leaked when the list is
\* initialised again (bt_gatt_dm_start) or on an error.  While the manager is not
\* locked it holds no chunk, no request is out with its callback, and discover_work
\* is idle: bt_gatt_dm_start initialises them all.
ResourcesOwned ==
  LET all == {<<"at", i, attrs[i].at>> : i \in 1..Len(attrs)}
             \cup {<<"val", i, attrs[i].val>> : i \in {j \in 1..Len(attrs) : attrs[j].val # NoBlock}}
      Words(b) == {<<b.chunk, w>> : w \in b.from..(b.from + b.len - 1)}
  IN  /\ mem.heap = mem.chunks
      /\ ~locked => mem.heap = 0 /\ ~running /\ ~work
      /\ \A x \in all : x[3].chunk \in 1..mem.chunks /\ x[3].from + x[3].len <= ChunkWords
      /\ \A x, y \in all : x # y => Words(x[3]) \cap Words(y[3]) = {}

\* Each lookup finds what the table of the service has: an attribute by its handle, a
\* characteristic by the UUID of its value, and under it its own value and its own
\* client configuration, not that of a neighbour.
Found ==
  \A h \in 0..LastHandle :
    LET i == Least({j \in 1..Len(attrs) : attrs[j].handle = h})
    IN  /\ attr_find_by_handle(h) = i
        /\ i # 0 /\ db[h] = "chrc" =>
             /\ bt_gatt_dm_char_by_uuid(Uuid(h + 1)) = i
             /\ bt_gatt_dm_desc_by_uuid(i, Uuid(h + 1)) = i + 1
             /\ bt_gatt_dm_desc_by_uuid(i, <<"ccc", 0>>) =
                  (IF h + 2 \in DOMAIN db /\ db[h + 2] = "ccc" THEN i + 2 ELSE 0)

\* A procedure that met no failure and is reported as completed has the service that
\* was asked for, each of its attributes once, in order, each characteristic with its
\* value, and the user's lookups find them.  (After a failure it is not so: the stack
\* ends a failed procedure like a finished one, and the manager reports what it has.)
CompletedIsWhole ==
  pending /\ ~broken =>
    LET s == attrs[1].handle
    IN  /\ {attrs[i].handle : i \in 1..Len(attrs)} = Members(s)
        /\ \A i, j \in 1..Len(attrs) : i < j => attrs[i].handle < attrs[j].handle
        /\ db[s] \in ServiceKinds /\ (params.by_uuid => db[s] = svc_uuid)
        /\ Found

\* Without a failure of the link, the camera, the stack or the heap, a procedure ends with an
\* error, or the processor faults on a refused attr_store, only for a service of more
\* attributes than the table has entries.
ErrorHasCause ==
  heard = "error" \/ halted =>
    broken \/ \E h \in DOMAIN db : db[h] \in ServiceKinds /\ Cardinality(Members(h)) > MaxAttrs

\* Each procedure is answered once, and the lock is released once for it.
Discovery == INSTANCE OneDiscovery WITH
  state <- CASE halted -> "dead"
             [] ~halted /\ ~locked -> "idle"
             [] ~halted /\ locked /\ ~pending -> "busy"
             [] ~halted /\ locked /\ pending -> "held"

DiscoverySpec == Discovery!Spec
=============================================================================
