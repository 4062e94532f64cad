--------------------------- MODULE CompositorProofs ---------------------------
(***************************************************************************)
(* What CompositorClients.cfg refutes for two clients holds for one: with  *)
(* any numbers of surfaces, pools and buffers, what it commits is shown.   *)
(***************************************************************************)
EXTENDS CompositorClients, TLAPS

ObjectIds == Surfaces \cup Pools \cup Buffers

SurfaceRecords == [buffer : Buffers \cup {None}, callback : (Clients \X Callbacks) \cup {None}]
BufferRecords == [pool : Pools, layout : Layouts]

\* The one client is c, an id names objects of one interface, and None is none of them.
OneClient(c) ==
    /\ Clients = {c} /\ c # None
    /\ Surfaces \cap Pools = {} /\ Surfaces \cap Buffers = {} /\ Pools \cap Buffers = {}
    /\ None \notin ObjectIds \cup SurfaceRecords \cup BufferRecords

ClientTypes ==
    /\ surfaces \in [Surfaces -> SurfaceRecords \cup {None}]
    /\ buffers \in [Buffers -> BufferRecords \cup {None}]
    /\ pools \in [Pools -> Clients \cup {None}]
    /\ have \in [Clients -> SUBSET ObjectIds]
    /\ view \in [Clients -> [Surfaces -> Buffers \cup {None}]]
    /\ expected \in Clients \cup {None}

\* The compositor has attached to a surface what the client has attached to it; to one
\* without a buffer it may have attached what a destroyed surface with its id showed.
ViewInv(c) == \A s \in Surfaces : view[c][s] # None => view[c][s] = Entry(s).buffer

\* What the client shows, it has; what it has, the compositor can render, though the pool
\* may have been destroyed since.
HaveInv(c) ==
    /\ \A s \in Surfaces : view[c][s] # None => view[c][s] \in have[c]
    /\ \A p \in Pools : p \in have[c] => pools[p] = c
    /\ \A b \in Buffers : b \in have[c] =>
          /\ buffers[b] # None
          /\ buffers[b].layout = "plain"
          /\ pools[buffers[b].pool] = c

IInv(c) == ClientTypes /\ ViewInv(c) /\ HaveInv(c) /\ ShowsCommitter

LEMMA InitIInv ==
    ASSUME NEW c, OneClient(c), Init
    PROVE  IInv(c)
<1> USE DEF OneClient, Init, WlInit
<1>1. ClientTypes
  BY DEF ClientTypes, SurfaceRecords, BufferRecords, ObjectIds
<1>2. ViewInv(c)
  BY DEF ViewInv, Entry
<1>3. HaveInv(c) /\ ShowsCommitter
  BY DEF HaveInv, ShowsCommitter, ObjectIds
<1> QED BY <1>1, <1>2, <1>3 DEF IInv

\* An entry that is made has the types of the map.
LEMMA EntryType ==
    ASSUME ClientTypes, NEW s \in Surfaces
    PROVE  Entry(s) \in SurfaceRecords
BY DEF ClientTypes, Entry, SurfaceRecords

\* A new object: what was there is as it was, and the id was free.
LEMMA PoolStep ==
    ASSUME NEW c, OneClient(c), IInv(c), NEW p \in Pools, SendCreatePool(c, p)
    PROVE  IInv(c)'
<1> USE DEF OneClient, SendCreatePool, CreatePool, New
<1>1. ClientTypes'
  BY DEF IInv, ClientTypes, ObjectIds
<1>2. ViewInv(c)' /\ ShowsCommitter'
  BY DEF IInv, ViewInv, Entry, ShowsCommitter
<1>3. HaveInv(c)'
  <2>1. have'[c] = have[c] \cup {p} /\ pools'[p] = c
    BY DEF IInv, ClientTypes
  <2>2. \A q \in Pools : q # p => pools'[q] = pools[q]
    BY DEF IInv, ClientTypes
  <2>3. \A b \in Buffers : b # p
    OBVIOUS
  <2>4. \A b \in Buffers : b \in have[c] => pools'[buffers[b].pool] = c
    <3> TAKE b \in Buffers
    <3> HAVE b \in have[c]
    <3>1. buffers[b].pool \in Pools /\ pools[buffers[b].pool] = c
      BY DEF IInv, ClientTypes, HaveInv, BufferRecords
    <3> QED BY <2>1, <2>2, <3>1
  <2> QED BY <2>1, <2>2, <2>3, <2>4 DEF IInv, HaveInv
<1> QED BY <1>1, <1>2, <1>3 DEF IInv

LEMMA BufferStep ==
    ASSUME NEW c, OneClient(c), IInv(c), NEW p \in Pools, NEW b \in Buffers,
           SendCreateBuffer(c, p, b)
    PROVE  IInv(c)'
<1> USE DEF OneClient, SendCreateBuffer, CreateBuffer, New
<1> DEFINE record == [pool |-> p, layout |-> "plain"]
<1>0. record \in BufferRecords
  BY DEF BufferRecords, Layouts
<1>1. ClientTypes'
  BY <1>0 DEF IInv, ClientTypes, ObjectIds
<1>2. ViewInv(c)' /\ ShowsCommitter'
  BY DEF IInv, ViewInv, Entry, ShowsCommitter
<1>3. HaveInv(c)'
  <2>1. have'[c] = have[c] \cup {b} /\ buffers'[b] = record /\ record # None
    BY <1>0 DEF IInv, ClientTypes
  <2>2. \A d \in Buffers : d # b => buffers'[d] = buffers[d]
    BY DEF IInv, ClientTypes
  <2>3. \A q \in Pools : q # b
    OBVIOUS
  <2> QED BY <2>1, <2>2, <2>3 DEF IInv, HaveInv
<1> QED BY <1>1, <1>2, <1>3 DEF IInv

LEMMA DestroyStep ==
    ASSUME NEW c, OneClient(c), IInv(c), NEW b \in Buffers, SendDestroyBuffer(c, b)
    PROVE  IInv(c)'
<1> USE DEF OneClient, SendDestroyBuffer, DestroyBuffer
<1>1. ClientTypes'
  BY DEF IInv, ClientTypes
<1>2. ViewInv(c)' /\ ShowsCommitter'
  BY DEF IInv, ViewInv, Entry, ShowsCommitter
<1>3. HaveInv(c)'
  <2>1. have'[c] = have[c] \ {b}
    BY DEF IInv, ClientTypes
  <2>2. \A d \in Buffers : d # b => buffers'[d] = buffers[d]
    BY DEF IInv, ClientTypes
  <2>3. \A d \in Buffers : d \in have[c] => buffers[d].pool \in Pools
    BY DEF IInv, ClientTypes, HaveInv, BufferRecords
  <2>4. \A q \in Pools : q # b
    OBVIOUS
  <2> QED BY <2>1, <2>2, <2>3, <2>4 DEF IInv, HaveInv
<1> QED BY <1>1, <1>2, <1>3 DEF IInv

\* attach with a buffer or without.
LEMMA AttachStep ==
    ASSUME NEW c, OneClient(c), IInv(c), NEW s \in Surfaces, NEW b \in Buffers \cup {None},
           SendAttach(c, s, b) \/ (b = None /\ SendDetach(c, s))
    PROVE  IInv(c)'
<1> USE DEF OneClient, SendAttach, SendDetach, Attach
<1> DEFINE record == [Entry(s) EXCEPT !.buffer = b]
<1>0. record \in SurfaceRecords /\ record.buffer = b
  BY EntryType DEF IInv, SurfaceRecords
<1>1. ClientTypes'
  BY <1>0 DEF IInv, ClientTypes
<1>2. ViewInv(c)'
  <2>1. surfaces'[s] = record /\ record # None /\ view'[c][s] = b
    BY <1>0 DEF IInv, ClientTypes
  <2>2. \A t \in Surfaces : t # s => surfaces'[t] = surfaces[t] /\ view'[c][t] = view[c][t]
    BY DEF IInv, ClientTypes
  <2>3. Entry(s)'.buffer = b
    BY <1>0, <2>1 DEF Entry
  <2>4. \A t \in Surfaces : t # s => Entry(t)' = Entry(t)
    BY <2>2 DEF Entry
  <2> QED BY <2>1, <2>2, <2>3, <2>4 DEF IInv, ViewInv
<1>3. HaveInv(c)'
  BY DEF IInv, HaveInv, ClientTypes
<1>4. ShowsCommitter'
  BY DEF IInv, ShowsCommitter
<1> QED BY <1>1, <1>2, <1>3, <1>4 DEF IInv

\* What is committed can be rendered, and is the client's.
LEMMA CommitStep ==
    ASSUME NEW c, OneClient(c), IInv(c), NEW s \in Surfaces, SendCommit(c, s)
    PROVE  IInv(c)'
<1> USE DEF OneClient, SendCommit, Commit
<1>1. ClientTypes'
  <2>1. surfaces[s] # None => [surfaces[s] EXCEPT !.callback = None] \in SurfaceRecords
    BY DEF IInv, ClientTypes, SurfaceRecords
  <2> QED BY <2>1 DEF IInv, ClientTypes
<1>2. ViewInv(c)'
  <2>1. \A t \in Surfaces : Entry(t)'.buffer = Entry(t).buffer
    <3> TAKE t \in Surfaces
    <3>1. CASE surfaces[s] = None \/ t # s
      BY <3>1 DEF IInv, ClientTypes, Entry
    <3>2. CASE surfaces[s] # None /\ t = s
      <4> DEFINE record == [surfaces[s] EXCEPT !.callback = None]
      <4>1. record \in SurfaceRecords /\ record.buffer = surfaces[s].buffer
        BY <3>2 DEF IInv, ClientTypes, SurfaceRecords
      <4>2. surfaces'[t] = record /\ record # None
        BY <3>2, <4>1 DEF IInv, ClientTypes
      <4> QED BY <3>2, <4>1, <4>2 DEF Entry
    <3> QED BY <3>1, <3>2
  <2> QED BY <2>1 DEF IInv, ViewInv
<1>3. HaveInv(c)'
  BY DEF IInv, HaveInv
<1>4. ShowsCommitter'
  <2> DEFINE b == Entry(s).buffer
  <2>1. CASE view[c][s] = None
    <3>1. screen' = screen \/ screen'.of = c
      <4>1. CASE Renderable(b)
        <5>1. b \in Buffers /\ buffers[b] \in BufferRecords
          BY <4>1, EntryType DEF IInv, ClientTypes, Renderable, SurfaceRecords
        <5>2. pools[buffers[b].pool] = c
          BY <4>1, <5>1 DEF IInv, ClientTypes, Renderable, BufferRecords
        <5> QED BY <4>1, <5>2 DEF Rendered, Picture
      <4> QED BY <4>1 DEF Rendered
    <3>2. expected' = expected /\ expected \in {c, None}
      BY <2>1 DEF IInv, ClientTypes
    <3> QED BY <3>1, <3>2 DEF IInv, ShowsCommitter
  <2>2. CASE view[c][s] # None
    <3>1. b \in Buffers /\ b \in have[c] /\ b # None
      BY <2>2 DEF IInv, ViewInv, HaveInv, ClientTypes
    <3>2. buffers[b] # None /\ buffers[b].layout = "plain"
      BY <3>1 DEF IInv, HaveInv
    <3>4. pools[buffers[b].pool] = c
      BY <3>1 DEF IInv, HaveInv
    <3>5. Renderable(b)
      BY <3>1, <3>2, <3>4 DEF Renderable
    <3>6. screen' = Picture(b)
      BY <3>5 DEF Rendered
    <3> QED BY <2>2, <3>4, <3>6 DEF Picture, ShowsCommitter
  <2> QED BY <2>1, <2>2
<1> QED BY <1>1, <1>2, <1>3, <1>4 DEF IInv

\* A surface or a pool is destroyed: the compositor keeps its entry.
LEMMA ForgetStep ==
    ASSUME NEW c, OneClient(c), IInv(c),
           \/ \E s \in Surfaces : SendDestroySurface(c, s)
           \/ \E p \in Pools : SendDestroyPool(c, p)
    PROVE  IInv(c)'
<1>1. PICK o \in Surfaces \cup Pools :
          /\ have' = [have EXCEPT ![c] = @ \ {o}]
          /\ \/ o \in Surfaces /\ view' = [view EXCEPT ![c][o] = None]
             \/ view' = view
          /\ UNCHANGED <<wlVars, expected>>
  BY DEF SendDestroySurface, SendDestroyPool
<1> USE DEF OneClient, wlVars
<1>2. ClientTypes'
  BY <1>1 DEF IInv, ClientTypes
<1>3. \A s \in Surfaces : view'[c][s] \in {None, view[c][s]}
  BY <1>1 DEF IInv, ClientTypes
<1>4. ViewInv(c)' /\ ShowsCommitter'
  BY <1>1, <1>3 DEF IInv, ViewInv, Entry, ShowsCommitter
<1>5. HaveInv(c)'
  <2>1. have'[c] = have[c] \ {o}
    BY <1>1 DEF IInv, ClientTypes
  <2>2. \A s \in Surfaces : view[c][s] # None => view[c][s] \in Buffers
    BY DEF IInv, ClientTypes
  <2>3. o \notin Buffers
    OBVIOUS
  <2> QED BY <1>1, <1>3, <2>1, <2>2, <2>3 DEF IInv, HaveInv
<1> QED BY <1>2, <1>4, <1>5 DEF IInv

LEMMA StepIInv ==
    ASSUME NEW c, OneClient(c), IInv(c), [Next]_vars
    PROVE  IInv(c)'
<1>1. ASSUME NEW s \in Surfaces, CreateSurface(c, s)
      PROVE  IInv(c)'
  <2> USE <1>1 DEF OneClient, CreateSurface, New, wlVars
  <2>1. ClientTypes'
    BY DEF IInv, ClientTypes, ObjectIds
  <2>2. ViewInv(c)' /\ ShowsCommitter'
    BY DEF IInv, ViewInv, Entry, ShowsCommitter
  <2>3. have'[c] = have[c] \cup {s}
    BY DEF IInv, ClientTypes
  <2>4. HaveInv(c)'
    BY <2>3 DEF IInv, HaveInv
  <2> QED BY <2>1, <2>2, <2>4 DEF IInv
<1>2. CASE UNCHANGED vars
  BY <1>2 DEF vars, wlVars, clientVars, IInv, ClientTypes, ViewInv, Entry, HaveInv,
              ShowsCommitter
<1>3. CASE Next
  <2>1. Clients = {c}
    BY DEF OneClient
  <2> QED BY <1>1, <1>3, <2>1, PoolStep, BufferStep, DestroyStep, AttachStep, CommitStep,
             ForgetStep DEF Next
<1> QED BY <1>2, <1>3

\* With one client, what is committed is shown (main.rs:240), however many surfaces,
\* pools and buffers it has and however it uses their ids again: the maps by protocol id
\* go wrong with a second client only.
THEOREM OneClientShown ==
    ASSUME NEW c, OneClient(c)
    PROVE  Spec => []ShowsCommitter
<1>1. Init => IInv(c)
  BY InitIInv
<1>2. IInv(c) /\ [Next]_vars => IInv(c)'
  BY StepIInv
<1>3. IInv(c) => ShowsCommitter
  BY DEF IInv
<1> QED BY <1>1, <1>2, <1>3, PTL DEF Spec
=============================================================================
