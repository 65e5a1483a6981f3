------------------------------ MODULE SegmentPlans ------------------------------
(***************************************************************************)
(* segmentation.py: the frozen partition of a packet into segments, the    *)
(* packets of the segments, and the reassembly of a cell.                  *)
(***************************************************************************)
EXTENDS ExamPackets

\* The consecutive blocks of each document, headings left out.
Documents(blocks) ==
    LET Place(groups, block) ==
            IF block.heading THEN Append(groups, <<>>)
            ELSE IF groups = <<>> THEN <<<<block>>>>
            ELSE Append(Front(groups), Append(Last(groups), block))
    IN FoldLeft(Place, <<>>, blocks)

Headings(blocks) == SelectSeq(blocks, LAMBDA block : block.heading)

ValidMembership(blocks, packet) ==
    LET headings == Headings(blocks) IN
    /\ \A i, j \in DOMAIN headings : i # j => headings[i].text # headings[j].text
    /\ \A g \in DOMAIN Documents(blocks) : Documents(blocks)[g] # <<>>
    /\ headings # <<>> => blocks[1].heading
    /\ [i \in DOMAIN Content(blocks) |-> Content(blocks)[i].text] = [i \in DOMAIN packet |-> packet[i].text]

\* _gec_membership: the positions of each document's sentences.
GecMembership(blocks) ==
    LET groups == Documents(blocks)
        Before(g) == Sum([h \in 1..(g - 1) |-> Len(groups[h])])
    IN [g \in DOMAIN groups |-> [k \in DOMAIN groups[g] |-> Before(g) + k]]

Denominator(packet, kind, blocks) ==
    CASE kind = "gec" -> [sentences |-> Len(packet), documents |-> Len(Headings(blocks))]
      [] kind = "nmt" -> [items |-> Len(packet), points |-> MaxPoints(packet),
                          matching |-> Cardinality({i \in DOMAIN packet : packet[i].kind = "matching"})]
      [] OTHER -> [items |-> Len(packet), points |-> Len(packet)]

\* _check_denominator: without the source the documents cannot be counted.
DenominatorFits(denominator, packet, kind, blocks) ==
    IF kind = "gec" /\ blocks = None THEN denominator.sentences = Len(packet)
    ELSE denominator = Denominator(packet, kind, blocks)

CanDerive(packet, ids) ==
    /\ ids # <<>> /\ IsInjective(ids) /\ Range(ids) \subseteq DOMAIN packet
    /\ \A j, k \in DOMAIN ids : j < k => ids[j] < ids[k]

\* _derive_segment_packet: the items get local identifiers.
DerivePacket(packet, ids) == [k \in DOMAIN ids |-> packet[ids[k]]]

DeriveSegments(packet, kind, blocks) ==
    LET groups == IF kind = "gec" THEN GecMembership(blocks) ELSE [i \in DOMAIN packet |-> <<i>>] IN
    [g \in DOMAIN groups |-> [ids |-> groups[g], packet |-> DerivePacket(packet, groups[g])]]

\* suite: kind, blocks (GEC only), denominator.
DerivePlan(packet, suite, protocol) ==
    [kind |-> suite.kind, protocol |-> protocol, packet |-> packet,
     source |-> IF suite.kind = "gec" THEN suite.blocks ELSE None,
     denominator |-> suite.denominator, segments |-> DeriveSegments(packet, suite.kind, suite.blocks)]

\* _validate_plan_without_packet: all identifiers, in canonical order, once.
ValidPlan(plan) ==
    /\ plan.kind = "gec" <=> plan.source # None
    /\ plan.segments # <<>> /\ \A s \in DOMAIN plan.segments : plan.segments[s].ids # <<>>
    /\ LET all == FlattenSeq([s \in DOMAIN plan.segments |-> plan.segments[s].ids]) IN
       all = [i \in DOMAIN all |-> i]

\* validate_segment_plan; blocks is None where only the packet is at hand.
PlanOfPacket(plan, packet, protocol, blocks) ==
    /\ ValidPlan(plan) /\ ValidPacket(packet)
    /\ plan.protocol = protocol /\ plan.packet = packet
    /\ \A i \in DOMAIN packet : plan.kind = "gec" <=> packet[i].kind = "sentence"
    /\ plan.kind = "gec" /\ blocks # None =>
          /\ ValidMembership(blocks, packet) /\ plan.source = blocks
          /\ [s \in DOMAIN plan.segments |-> plan.segments[s].ids] = GecMembership(blocks)
    /\ FlattenSeq([s \in DOMAIN plan.segments |-> plan.segments[s].ids]) = [i \in DOMAIN packet |-> i]
    /\ DenominatorFits(plan.denominator, packet, plan.kind, blocks)
    /\ \A s \in DOMAIN plan.segments :
          LET segment == plan.segments[s] IN
          CanDerive(packet, segment.ids) /\ segment.packet = DerivePacket(packet, segment.ids)

\* The extra condition of a GEC segment: no null.
Complete(plan, responses) == plan.kind = "gec" => \A k \in DOMAIN responses : responses[k] # Null

\* records: segment, packet, responses, of the successful segments, in order.
CanReassemble(plan, records) ==
    /\ ValidPlan(plan)
    /\ [k \in DOMAIN records |-> records[k].segment] = [s \in DOMAIN plan.segments |-> s]
    /\ \A s \in DOMAIN plan.segments :
          LET record == records[s] IN
          /\ record.packet = plan.segments[s].packet
          /\ DOMAIN record.responses = DOMAIN plan.segments[s].ids
          /\ Complete(plan, record.responses)

ReassembleByName(plan, records) == \* mutant: local identifiers are taken for those of the packet
    [i \in DOMAIN plan.packet |->
        LET s == CHOOSE s \in DOMAIN plan.segments : i \in Range(plan.segments[s].ids)
            responses == records[s].responses
        IN IF i \in DOMAIN responses THEN responses[i] ELSE responses[1]]
\* reassemble_cell: each local answer goes to the item its segment took it from.
Reassemble(plan, records) ==
    [i \in DOMAIN plan.packet |->
        LET s == CHOOSE s \in DOMAIN plan.segments : i \in Range(plan.segments[s].ids)
            k == CHOOSE k \in DOMAIN plan.segments[s].ids : plan.segments[s].ids[k] = i
        IN records[s].responses[k]]
=============================================================================
