------------------------------ MODULE MCDevices -----------------------------
(* Device discovery and the drivers: five parts that share no variable,    *)
(* checked side by side.  part says which one a behaviour is about.        *)
EXTENDS VirtioQueue, QueueMemory, BootProbe

VARIABLE part

Drv(name, base, irq, class, answers, obj) ==
    [name |-> name, base |-> base, irq |-> irq, class |-> class, answers |-> answers, obj |-> obj]

\* two UARTs that share a line, and another object for the first one's device
ThreeDrivers == {Drv("uart", 1, 1, {"char", "terminal"}, TRUE, 1),
                 Drv("uart", 2, 1, {"char"}, TRUE, 2),
                 Drv("uart", 1, 1, {"char"}, FALSE, 3)}

Fac(name, compatible, cap, class, checks_id) ==
    [name |-> name, compatible |-> compatible, cap |-> cap, class |-> class, checks_id |-> checks_id]
TheFactories == <<Fac("uart", <<"ns16550a", "snps">>, 1, {"char", "terminal"}, FALSE),
                  Fac("blk", <<"virtio">>, 1, {"block"}, TRUE),
                  Fac("rng", <<"virtio">>, 1, {"rng"}, TRUE)>>

Node(compatible, dev, healthy, line, state, cells) ==
    [NewNode(0, Default) EXCEPT !.compatible = compatible, !.irq = line, !.status = state, !.reg = cells]
      @@ [base |-> 0, device |-> dev, healthy |-> healthy]
TheNodes == {Node({"ns16550a", "snps"}, "uart", TRUE, 1, NoneV, 3),
             Node({"virtio"}, "blk", TRUE, 2, "okay", 3),
             Node({"virtio"}, "blk", FALSE, 2, NoneV, 3),
             Node({"virtio"}, "rng", TRUE, NoneV, NoneV, 3),
             Node({"virtio"}, "rng", TRUE, 3, "disabled", 3),
             Node({"snps"}, "uart", TRUE, 1, NoneV, 2)}
ThePlatform == <<[driver |-> Drv("uart", 1, 1, {"char"}, TRUE, 9), init_ok |-> TRUE],
                 [driver |-> Drv("eth", 9, 4, {"net"}, FALSE, 8), init_ok |-> FALSE]>>

allvars == <<vqvars, qmvars, rgvars, dtvars, bpvars, part>>

NoDevice == [magic |-> FALSE, version |-> 0, id_matches |-> FALSE,
             modern |-> FALSE, accepts |-> FALSE, queue_fits |-> FALSE]

Init ==
    /\ part \in {"virtio", "memory", "registry", "tree", "boot"}
    /\ VqInit /\ (part = "virtio" \/ (kind = "blk" /\ device = NoDevice))
    /\ IF part = "memory" THEN QmInit ELSE layout_of = "blk" /\ slack = 0
    /\ RgInit /\ DtInit /\ BpInit

Next ==
    /\ UNCHANGED <<part, qmvars>>
    /\ \/ part = "virtio" /\ VqNext /\ UNCHANGED <<rgvars, dtvars, bpvars>>
       \/ part = "registry" /\ RgNext /\ UNCHANGED <<vqvars, dtvars, bpvars>>
       \/ part = "tree" /\ DtNext /\ UNCHANGED <<vqvars, rgvars, bpvars>>
       \/ part = "boot" /\ BpNext /\ UNCHANGED <<vqvars, rgvars, dtvars>>

Spec == Init /\ [][Next]_allvars
        /\ \A c \in Callers : WF_allvars(CallerStep(c) /\ UNCHANGED <<qmvars, rgvars, dtvars, bpvars, part>>)
=============================================================================
