----------------------------- MODULE PioDispatch -----------------------------
(***************************************************************************)
(* Port I/O emulation of hypervisor/arch/x86/io.c.  While a VM is created, *)
(* register_io_emulation_handler pushes handlers on the front of the VM's  *)
(* handler list and, for VM0, sets the ports' bits in the I/O bitmaps so   *)
(* that the guest's IN/OUT on them cause a VM exit; every other VM starts  *)
(* with every bit set.  On an exit, pio_instr_vmexit_handler builds the    *)
(* vCPU's io_request, hv_emulate_pio walks the list for a handler, and an  *)
(* access no handler claims is passed to VHM in the vCPU's slot of the     *)
(* shared request page; when VHM has finished, dm_emulate_pio_post copies  *)
(* the result back on vCPU resume.  The result of an IN is merged into RAX *)
(* by emulate_pio_post.                                                    *)
(*                                                                         *)
(* Values are 4-byte tuples (byte 0 the least significant), so the mask   *)
(* 0xFFFFFFFF >> (32 - 8 * size) selects the first size bytes.  RAX is its *)
(* low four bytes and a token for the upper half.  A handler's device is   *)
(* one 4-byte register that io_write stores and io_read returns.  A bitmap *)
(* is the set of port bits that differ from what setup_io_bitmap wrote.    *)
(***************************************************************************)
EXTENDS Integers, Sequences, FiniteSets

CONSTANTS
    VCpus,         \* the VM's vCPUs
    Ranges,        \* the vm_io_ranges each VM registers, [base, len]
    AllowRanges,   \* the port ranges passed to allow_guest_io_access
    Accesses,      \* the guests' port accesses, [port, size]
    DmValues,      \* values VHM's device model may return for an IN
    MaxExits       \* bound on the I/O exits each vCPU takes

Byte == 0..255
Value == [0..3 -> Byte]
\* REQ_STATE_*
PENDING == 0
SUCCESS == 1
FAILED == -1

\* the first size bytes of v, the others zero: v & mask
Masked(v, size) == [i \in 0..3 |-> IF i < size THEN v[i] ELSE 0]

VARIABLES
    vm0,       \* is_vm0(vm)
    phase,     \* "create" (handlers registered), "run", "freed"
    toReg,     \* ranges not yet registered
    toAllow,   \* ranges not yet passed to allow_guest_io_access
    handlers,  \* vm->arch_vm.io_handler as a sequence from the head
    flipped,   \* the port bits changed since setup_io_bitmap
    dev,       \* dev[r]: the register of the device behind the handler of r
    vpc,       \* vpc[v]: "guest", or "vhm" while its request is with VHM
    rax,       \* rax[v]: [lo |-> Value, hi |-> token]
    req,       \* req[v]: vcpu->req (processed, direction, port, size, value)
    slot,      \* slot[v]: req_queue[vcpu_id] of the VM's shared page
    last,      \* ghost: the last access of each vCPU and how it was served
    exits      \* exits[v]: the I/O exits vCPU v has taken, up to MaxExits

vars == << vm0, phase, toReg, toAllow, handlers, flipped, dev, vpc, rax, req, slot,
           last, exits >>

\* errno values (errno.h); NoStatus marks a vCPU that has made no access
EIO == 5
ENODEV == 19
NoStatus == 1
NoAccess == [route |-> [status |-> NoStatus]]

TypeOK ==
    /\ vm0 \in BOOLEAN
    /\ phase \in {"create", "run", "freed"}
    /\ toReg \subseteq Ranges /\ toAllow \subseteq AllowRanges
    /\ handlers \in Seq(Ranges)
    /\ flipped \subseteq 0..65535
    /\ dev \in [Ranges -> Value]
    /\ vpc \in [VCpus -> {"guest", "vhm"}]
    /\ \A v \in VCpus : rax[v].lo \in Value /\ req[v].value \in Value
    /\ \A v \in VCpus : req[v].processed \in {PENDING, SUCCESS, FAILED}
    /\ \A v \in VCpus : slot[v].valid \in {0, 1}

\* The vCPU, the request page and the devices start zeroed: processed 0 is
\* PENDING and direction 0 is REQUEST_READ.  RAX holds what the guest put
\* there.
Zero4 == [i \in 0..3 |-> 0]
ZeroReq == [processed |-> PENDING, dir |-> "read", port |-> 0, size |-> 1,
            value |-> Zero4]

\* The VM is VM0 or another VM; setup_io_bitmap runs when it is created,
\* so flipped starts empty.
Init ==
    /\ vm0 \in BOOLEAN
    /\ phase = "create"
    /\ toReg = Ranges
    /\ toAllow = AllowRanges
    /\ handlers = << >>
    /\ flipped = {}
    /\ dev = [r \in Ranges |-> Zero4]
    /\ vpc = [v \in VCpus |-> "guest"]
    /\ rax = [v \in VCpus |-> [lo |-> [i \in 0..3 |-> 10 * (i + 1)], hi |-> "upper"]]
    /\ req = [v \in VCpus |-> ZeroReq]
    /\ slot = [v \in VCpus |-> [valid |-> 0, processed |-> PENDING, req |-> ZeroReq]]
    /\ last = [v \in VCpus |-> NoAccess]
    /\ exits = [v \in VCpus |-> 0]

-----------------------------------------------------------------------------
(* The I/O bitmaps.                                                        *)

\* setup_io_bitmap: VM0's bitmaps are memset to 0x00, the others' to 0xFF
IsSet(p) == IF vm0 THEN p \in flipped ELSE p \notin flipped

\* mutant: the bit index taken from the whole address, not address & 0x7fff
BitOfUnmasked(base, i) ==
    LET sticky == \E j \in 0..i : ((base + j) \div 32768) % 2 = 1
    IN (IF sticky THEN 32768 ELSE 0) + (base + i)

\* the bit the loops of allow/deny_guest_io_access touch for the i-th port
\* of a range: b moves to iobitmap[1] once address & 0x8000 is set and
\* never moves back; a = address & 0x7fff.
BitOf(base, i) ==
    LET sticky == \E j \in 0..i : ((base + j) \div 32768) % 2 = 1
    IN (IF sticky THEN 32768 ELSE 0) + ((base + i) % 32768)

\* mutant: the loop stops one port short
BitsShort(base, nbytes) == { BitOf(base, i) : i \in 0..(nbytes - 2) }

Bits(base, nbytes) == { BitOf(base, i) : i \in 0..(nbytes - 1) }

\* set (deny) or clear (allow) bits relative to the setup value
SetBits(bs) == IF vm0 THEN flipped \cup bs ELSE flipped \ bs
ClearBits(bs) == IF vm0 THEN flipped \ bs ELSE flipped \cup bs

\* the processor exits on IN/OUT when the bit of any accessed port is set
Traps(a) == \E i \in 0..(a.size - 1) : IsSet((a.port + i) % 65536)

-----------------------------------------------------------------------------
(* Registration and teardown.                                              *)

\* create_io_handler: a handler for the ports [port, port + len) (calloc is
\* taken to succeed)
create_io_handler(port, len) == [base |-> port, len |-> len]

\* register_io_handler: the new handler becomes the head of the list
register_io_handler(hs, hdlr) == << hdlr >> \o hs

\* register_io_emulation_handler with non-NULL callbacks: deny_guest_io_access
\* for VM0, then create_io_handler and register_io_handler.
register_io_emulation_handler(r) ==
    /\ phase = "create"
    /\ r \in toReg
    /\ flipped' = IF vm0 THEN SetBits(Bits(r.base, r.len)) ELSE flipped
    /\ handlers' = register_io_handler(handlers, create_io_handler(r.base, r.len))
    /\ toReg' = toReg \ {r}
    /\ UNCHANGED << vm0, phase, toAllow, dev, vpc, rax, req, slot, last, exits >>

\* allow_guest_io_access: clear the bits of a range
allow_guest_io_access(r) ==
    /\ phase = "create"
    /\ r \in toAllow
    /\ flipped' = ClearBits(Bits(r.base, r.len))
    /\ toAllow' = toAllow \ {r}
    /\ UNCHANGED << vm0, phase, toReg, handlers, dev, vpc, rax, req, slot, last, exits >>

\* the VM's vCPUs start once it is set up
StartVm ==
    /\ phase = "create"
    /\ toReg = {} /\ toAllow = {}
    /\ phase' = "run"
    /\ UNCHANGED << vm0, toReg, toAllow, handlers, flipped, dev, vpc, rax, req, slot,
                    last, exits >>

\* free_io_emulation_resource: empty_io_handler_list and free the bitmaps,
\* when the VM is destroyed with its vCPUs paused outside an access
free_io_emulation_resource ==
    /\ phase = "run"
    /\ \A v \in VCpus : vpc[v] = "guest"
    /\ phase' = "freed"
    /\ handlers' = << >>
    /\ UNCHANGED << vm0, toReg, toAllow, flipped, dev, vpc, rax, req, slot, last, exits >>

-----------------------------------------------------------------------------
(* Emulation.                                                              *)

\* mutant: an access that ends at the handler's base counts as touching it
MissesTouching(h, a) == LET end == (h.base + h.len) % 65536
                        IN a.port >= end \/ a.port + a.size < h.base

\* hv_emulate_pio's test of one handler: end is computed in uint16_t, the
\* other sums in int.
Misses(h, a) == LET end == (h.base + h.len) % 65536
                IN a.port >= end \/ a.port + a.size <= h.base

\* the handler covers the whole access
Contains(h, a) == LET end == (h.base + h.len) % 65536
                  IN a.port >= h.base /\ a.port + a.size <= end

\* the list position hv_emulate_pio stops at, 0 when it runs off the end
FirstHit(hs, a) ==
    LET hits == { i \in 1..Len(hs) : ~Misses(hs[i], a) }
    IN IF hits = {} THEN 0 ELSE CHOOSE i \in hits : \A j \in hits : i <= j

\* hv_emulate_pio's status, and the handler it ran on status 0
hv_emulate_pio(hs, a) ==
    LET i == FirstHit(hs, a)
    IN IF i = 0 THEN [status |-> -ENODEV]
       ELSE IF Contains(hs[i], a) THEN [status |-> 0, handler |-> hs[i]]
       ELSE [status |-> -EIO]

\* emulate_pio_post: on success merge an IN's value into RAX under the mask
emulate_pio_post(v, processed, dir, size, val) ==
    IF processed = SUCCESS /\ dir = "read"
    THEN rax' = [rax EXCEPT ![v].lo =
                  [i \in 0..3 |-> IF i < size THEN val[i] ELSE rax[v].lo[i]]]
    ELSE UNCHANGED rax

\* mutant: the request is copied to the slot without marking it valid
\* acrn_insert_request_wait (its body is not in this source): copy the
\* request to the vCPU's slot of the shared page and mark it valid for VHM
InsertRequest(v, new) ==
    slot' = [slot EXCEPT ![v] = [valid |-> 1, processed |-> PENDING, req |-> new]]

\* emulate_io: hv_emulate_pio, and on -ENODEV acrn_insert_request_wait,
\* after which the vCPU waits for VHM; if the insert fails emulate_io
\* logs and returns its status with the request PENDING.  hv_emulate_pio on a handler calls io_write
\* with value & mask or stores io_read's result, and sets processed to
\* SUCCESS; on -EIO (an access that spans devices) the request is left
\* PENDING.  pio_instr_vmexit_handler then runs emulate_pio_post when the
\* status is 0 and the request is no longer PENDING.
emulate_io(v, a, new) ==
    LET r == hv_emulate_pio(handlers, a)
        rec(val, ok) == [route |-> r, dir |-> new.dir, port |-> a.port,
                         size |-> a.size, before |-> rax[v], served |-> val,
                         ok |-> ok]
    IN CASE r.status = -ENODEV ->
             /\ req' = [req EXCEPT ![v] = new]
             /\ \/ InsertRequest(v, new) /\ vpc' = [vpc EXCEPT ![v] = "vhm"]
                \/ UNCHANGED << slot, vpc >>
             /\ last' = [last EXCEPT ![v] = rec(new.value, FALSE)]
             /\ UNCHANGED << rax, dev >>
         [] r.status = -EIO ->
             /\ req' = [req EXCEPT ![v] = new]
             /\ last' = [last EXCEPT ![v] = rec(new.value, FALSE)]
             /\ UNCHANGED << rax, dev, slot, vpc >>
         [] OTHER ->
             LET h == r.handler
                 val == IF new.dir = "write" THEN new.value ELSE dev[h]
             IN /\ req' = [req EXCEPT ![v] = [new EXCEPT !.processed = SUCCESS,
                                                         !.value = val]]
                /\ IF new.dir = "write"
                   THEN dev' = [dev EXCEPT ![h] = Masked(val, a.size)]
                   ELSE UNCHANGED dev
                /\ emulate_pio_post(v, SUCCESS, new.dir, a.size, val)
                /\ last' = [last EXCEPT ![v] = rec(dev[h], TRUE)]
                /\ UNCHANGED << slot, vpc >>

\* pio_instr_vmexit_handler for an IN (dir "read") or OUT ("write") on a
\* port whose bit is set: build vcpu->req (an OUT takes the low 32 bits of
\* RAX, an IN keeps the old value), then emulate_io.
pio_instr_vmexit_handler(v, a, dir) ==
    /\ phase = "run"
    /\ vpc[v] = "guest"
    /\ Traps(a)
    /\ exits[v] < MaxExits
    /\ exits' = [exits EXCEPT ![v] = @ + 1]
    /\ emulate_io(v, a, [processed |-> PENDING, dir |-> dir, port |-> a.port,
                         size |-> a.size,
                         value |-> IF dir = "write" THEN rax[v].lo
                                   ELSE req[v].value])
    /\ UNCHANGED << vm0, phase, toReg, toAllow, handlers, flipped >>

\* VHM completes the request in a valid slot: success with a value for an
\* IN, or failure.  The device model is the only writer of processed and
\* of the value (acrn_common.h).
VhmComplete(v) ==
    /\ slot[v].valid = 1 /\ slot[v].processed = PENDING
    /\ \/ \E d \in DmValues :
            /\ slot' = [slot EXCEPT ![v].processed = SUCCESS,
                                    ![v].req.value = IF slot[v].req.dir = "read"
                                                     THEN d ELSE @]
            /\ last' = [last EXCEPT ![v].served = d, ![v].ok = TRUE]
       \/ /\ slot' = [slot EXCEPT ![v].processed = FAILED]
          /\ last' = [last EXCEPT ![v].ok = FALSE]
    /\ UNCHANGED << vm0, phase, toReg, toAllow, handlers, flipped, dev, vpc, rax, req,
                    exits >>

\* mutant: the value VHM returned is not copied into vcpu->req
dm_emulate_pio_postNoValue(v) ==
    /\ vpc[v] = "vhm"
    /\ slot[v].processed # PENDING
    /\ LET p == slot[v].processed
       IN /\ req' = [req EXCEPT ![v].processed = p]
          /\ slot' = [slot EXCEPT ![v].valid = 0]
          /\ emulate_pio_post(v, p, req[v].dir, req[v].size, req[v].value)
    /\ vpc' = [vpc EXCEPT ![v] = "guest"]
    /\ UNCHANGED << vm0, phase, toReg, toAllow, handlers, flipped, dev, last, exits >>

\* dm_emulate_pio_post on vCPU resume: copy processed and the value from the
\* slot, free the slot, then emulate_pio_post
dm_emulate_pio_post(v) ==
    /\ vpc[v] = "vhm"
    /\ slot[v].processed # PENDING
    /\ LET p == slot[v].processed
           val == slot[v].req.value
       IN /\ req' = [req EXCEPT ![v].processed = p, ![v].value = val]
          /\ slot' = [slot EXCEPT ![v].valid = 0]
          /\ emulate_pio_post(v, p, req[v].dir, req[v].size, val)
    /\ vpc' = [vpc EXCEPT ![v] = "guest"]
    /\ UNCHANGED << vm0, phase, toReg, toAllow, handlers, flipped, dev, last, exits >>

Next ==
    \/ \E r \in Ranges : register_io_emulation_handler(r)
    \/ \E r \in AllowRanges : allow_guest_io_access(r)
    \/ StartVm
    \/ free_io_emulation_resource
    \/ \E v \in VCpus :
          \/ \E a \in Accesses, dir \in {"read", "write"} :
                pio_instr_vmexit_handler(v, a, dir)
          \/ VhmComplete(v)
          \/ dm_emulate_pio_post(v)

Spec == Init /\ [][Next]_vars
-----------------------------------------------------------------------------
(* Properties.                                                             *)

\* a handler's range overlaps, or contains, an access, in port arithmetic
\* without wrap-around
Overlaps(h, a) == a.port < h.base + h.len /\ h.base < a.port + a.size
Within(h, a) == h.base <= a.port /\ a.port + a.size <= h.base + h.len

(* After an IN returns to the guest, the low four bytes of RAX hold what *)
(* served it in the first size bytes and what the guest had in the rest,  *)
(* whether the value came from a handler at the exit or from VHM many     *)
(* steps later through the shared page and dm_emulate_pio_post; an IN     *)
(* that failed (-EIO, or VHM's REQ_STATE_FAILED) leaves RAX as it was.    *)
InResultMerged ==
    \A v \in VCpus :
        LET L == last[v]
        IN (vpc[v] = "guest" /\ L.route.status # NoStatus /\ L.dir = "read") =>
              IF ~L.ok THEN rax[v] = L.before
              ELSE \A i \in 0..3 :
                   rax[v].lo[i] = IF i < L.size THEN L.served[i]
                                  ELSE L.before.lo[i]

(* hv_emulate_pio gives an access to the most recently registered handler *)
(* whose ports it touches, and only when that handler covers all of it;   *)
(* an access touching a handler's ports but not inside the newest one     *)
(* fails with -EIO, and only an access touching no handler goes to VHM.   *)
AccessRouted ==
    \A v \in VCpus :
        (phase = "run" /\ last[v].route.status # NoStatus) =>
            LET hs == handlers
                a == [port |-> last[v].port, size |-> last[v].size]
                over == { i \in 1..Len(hs) : Overlaps(hs[i], a) }
                newest == CHOOSE i \in over : \A j \in over : i <= j
            IN CASE last[v].route.status = -ENODEV -> over = {}
                 [] last[v].route.status = -EIO -> over # {} /\ ~Within(hs[newest], a)
                 [] OTHER -> /\ over # {}
                             /\ hs[newest] = last[v].route.handler
                             /\ Within(hs[newest], a)

(* Every port of every registered handler has its bit set in the VM's I/O *)
(* bitmaps while the VM runs, so the guest cannot reach the physical port *)
(* behind an emulated device: deny_guest_io_access for VM0, and the 0xFF  *)
(* fill of setup_io_bitmap minus allow_guest_io_access for other VMs.     *)
HandlerPortsTrapped ==
    phase = "run" =>
        \A i \in 1..Len(handlers) :
            \A p \in handlers[i].base .. (handlers[i].base + handlers[i].len - 1) :
                IsSet(p % 65536)

====
