------------------------------- MODULE Masks -------------------------------
(***************************************************************************)
(* A server plan that aggregates fields and masks them: the Mask messages  *)
(* of the clients (multio_write_mask, MaskCompression), the global masks    *)
(* that domain::Mask assembles from them next to the Mappings, and the mask *)
(* action behind the aggregate action of module Aggregate.  A client sends *)
(* its masks once, before all fields, as multio-replay-nemo-capi does, or a *)
(* mask for each step before the fields of that step, with the step in its *)
(* metadata or without: then the masks of all steps have the same field id. *)
(***************************************************************************)
EXTENDS Aggregate, Integers, SequencesExt

CONSTANTS Definition,    \* Definition[d][p]: the Structured domain of p's part
          Setups,        \* the choices of the model and of the plan, see SetupAssumption
          OffsetFields,  \* fields that the mask action shifts by its offset
          NoMask         \* value that is no mask

\* Cells of the data of a part, halo included, in the order of the payload
Cells(def) == 0 .. def.data_ni * def.data_nj - 1
GlobalCells(d) ==
    LET def == Definition[d][CHOOSE p \in Members[d] : TRUE]
    IN  0 .. def.ni_global * def.nj_global - 1

\* A part has at least one cell: an empty mask has no encoding.
ASSUME DefinitionAssumption ==
    \A d \in Domains : \A p \in Members[d] :
        LET def == Definition[d][p]
        IN  /\ Cells(def) # {}
            /\ LocalSize[d][p] = def.ni * def.nj

ASSUME SetupAssumption ==
    \A c \in Setups :
        /\ c.masks \in {"once", "dated", "undated"}  \* sent once, with their step, without
        /\ c.applyBitmap \in BOOLEAN                \* apply-bitmap of the mask action
        /\ \A d \in Domains, k \in Steps : \A p \in Members[d] :
              c.bits[d][k][p] \in [Cells(Definition[d][p]) -> BOOLEAN]  \* of p's part in step k

VARIABLES
    setup,      \* one of Setups, the same for all clients and servers
    maskSent,   \* history: steps whose mask has arrived, by source and domain
    messages,   \* domain::Mask::messages_: the parts of a mask, by field id
    bitmasks,   \* domain::Mask::bitmasks_; a domain stands for one at one level (Mask::key)
    thrown,     \* an exception has left the mask action, and with it the dispatcher
    masked,     \* history: what the mask action made of each cell of a field
    overtaken   \* history: domains of which a client sent an undated mask while another
                \* had not sent that of the step before

maskVars == <<setup, maskSent, messages, bitmasks, thrown, masked, overtaken>>
allVars == <<vars, maskVars>>

-----------------------------------------------------------------------------
(* MaskCompression *)

\* Cells at which a run begins, in order, and the lengths of the runs
RunStarts(bits) ==
    LET starts == {i \in DOMAIN bits : i > 0 => bits[i] # bits[i - 1]}
    IN  [r \in 1 .. Cardinality(starts) |->
            CHOOSE i \in starts : Cardinality({j \in starts : j < i}) = r - 1]
RunLengths(bits) ==
    LET starts == RunStarts(bits) \o <<Cardinality(DOMAIN bits)>>
    IN  [r \in 1 .. Len(starts) - 1 |-> starts[r + 1] - starts[r]]

\* util::bitWidth
BitWidth(n) == CHOOSE w \in 1 .. n : 2 ^ (w - 1) <= n /\ n < 2 ^ w

\* numBitsPerInt of computeMaskRunLengthProperties
RunWidth(lengths) ==
    LET longest == Max(Range(lengths))
    IN  BitWidth(IF longest > 1 THEN longest - 1 ELSE 1)

\* Bytes that hold so many bits, behind the header of five
BufferSize(bits) == 5 + (bits + 7) \div 8

\* encodeMaskRunLength: a length is stored less one, in RunWidth bits
EncodeRunLength(bits) ==
    LET lengths == RunLengths(bits)
        width   == RunWidth(lengths)
    IN  [format |-> "RunLength", numBits |-> Cardinality(DOMAIN bits), start |-> bits[0],
         data |-> [r \in DOMAIN lengths |-> (lengths[r] - 1) % 2 ^ width],
         size |-> BufferSize(width * Len(lengths))]

\* encodeMaskBitMask
EncodeBitMask(bits) ==
    [format |-> "BitMask", numBits |-> Cardinality(DOMAIN bits), start |-> FALSE,
     data |-> [i \in 1 .. Cardinality(DOMAIN bits) |-> IF bits[i - 1] THEN 1 ELSE 0],
     size |-> BufferSize(Cardinality(DOMAIN bits))]

\* encodeMask: the shorter of the two
EncodeMask(bits) ==
    IF EncodeBitMask(bits).size < EncodeRunLength(bits).size
    THEN EncodeBitMask(bits) ELSE EncodeRunLength(bits)

\* RunLengthIterator: where the runs end
RunEnds(data) == [r \in 1 .. Len(data) |->
                    SumFunctionOnSet([q \in DOMAIN data |-> data[q] + 1], 1 .. r)]

\* MaskPayloadIterator, RunLengthIterator: the values cell by cell
Decode(code) ==
    [i \in 0 .. code.numBits - 1 |->
        IF code.format = "BitMask" THEN code.data[i + 1] = 1
        ELSE LET ends == RunEnds(code.data)
                 run == CHOOSE r \in DOMAIN ends : i < ends[r] /\ (r > 1 => ends[r - 1] <= i)
             IN  IF run % 2 = 1 THEN code.start ELSE ~ code.start]

-----------------------------------------------------------------------------
(* Structured domains *)

\* Column and row of a cell relative to the part; those of the halo are outside
Col(def, n) == def.data_ibegin + (n % def.data_ni)
Row(def, n) == def.data_jbegin + (n \div def.data_ni)

\* mutant: the halo counts as part of the domain
InnerHalo(def) == Cells(def)

Inner(def) == {n \in Cells(def) : Col(def, n) \in 0 .. def.ni - 1 /\ Row(def, n) \in 0 .. def.nj - 1}

GlobalIndex(def, n) == (def.jbegin + Row(def, n)) * def.ni_global + def.ibegin + Col(def, n)

\* Structured::toBitmask (and toGlobal): inner cells overwrite the global ones.
ToBitmask(def, local, global) ==
    [b \in DOMAIN global |->
        IF \E n \in Inner(def) : GlobalIndex(def, n) = b
        THEN local[CHOOSE n \in Inner(def) : GlobalIndex(def, n) = b] ELSE global[b]]

-----------------------------------------------------------------------------
(* domain::Mask *)

\* mutant: cells of no part are left unmasked
CreateBitmaskOpen(d, list) ==
    EncodeRunLength(
        FoldLeft(LAMBDA global, m : ToBitmask(Definition[d][m.source], Decode(m.payload), global),
                 [b \in GlobalCells(d) |-> TRUE], list))

\* createBitmask: all cells masked, then the parts in the order of arrival
CreateBitmask(d, list) ==
    EncodeRunLength(
        FoldLeft(LAMBDA global, m : ToBitmask(Definition[d][m.source], Decode(m.payload), global),
                 [b \in GlobalCells(d) |-> FALSE], list))

\* allPartsArrived: as many parts as the domain has
AllMasksArrived(d, list) == IsComplete(d) /\ Len(list) = Cardinality(known[d])

\* The steps for which there is a mask, and that of the mask of step k
MaskSteps == IF setup.masks = "once" THEN {1} ELSE Steps
MaskOf(k) == IF setup.masks = "once" THEN 1 ELSE k

\* fieldId of a Mask message: all its metadata, the step only if it is there
MaskId(d, k) == <<d, IF setup.masks = "dated" THEN k ELSE 1>>

MaySendMask(p, d, k) ==
    /\ p \in Members[d] /\ p \in known[d]
    /\ k \in MaskSteps \ maskSent[p][d]
    /\ \A j \in 1 .. k - 1 : j \in maskSent[p][d] /\ <<d, j>> \in flushArrived[p]

Overtakes(d, k) ==
    setup.masks = "undated" /\ \E q \in Members[d] : \E j \in 1 .. k - 1 : j \notin maskSent[q][d]

\* Mask::add
AddMask(p, d, k) ==
    LET id   == MaskId(d, k)
        part == [source |-> p, payload |-> EncodeMask(setup.bits[d][k][p])]
        list == Append(messages[id], part)
    IN  /\ ~ failed
        /\ MaySendMask(p, d, k)
        /\ maskSent' = [maskSent EXCEPT ![p][d] = @ \cup {k}]
        /\ overtaken' = IF Overtakes(d, k) THEN overtaken \cup {d} ELSE overtaken
        /\ IF AllMasksArrived(d, list)
           THEN /\ bitmasks' = [bitmasks EXCEPT ![d] = CreateBitmask(d, list)]
                /\ messages' = [messages EXCEPT ![id] = <<>>]
           ELSE /\ messages' = [messages EXCEPT ![id] = list]
                /\ UNCHANGED bitmasks
        /\ UNCHANGED <<vars, setup, thrown, masked>>

-----------------------------------------------------------------------------
(* The mask action *)

\* applyMask and applyOffset ask for the mask of the domain, and throw if there is
\* none (Mask::get) or if it has not as many cells as the field.
Maskable(f) ==
    setup.applyBitmap \/ f \in OffsetFields =>
        LET bits == bitmasks[DomainOf[f]]
        IN  bits # NoMask /\ bits.numBits = Cardinality(GlobalCells(DomainOf[f]))

\* createMasked: applyMask, if it is asked for, then applyOffset on the cells that
\* are not masked
CreateMasked(f, bits) ==
    [b \in GlobalCells(DomainOf[f]) |->
        IF setup.applyBitmap /\ ~ bits[b] THEN "missing"
        ELSE IF f \in OffsetFields /\ bits[b] THEN "shifted" ELSE "value"]

\* A part of a field; the action behind gets the field when it is whole.
MaskField(p, f) ==
    /\ MaskOf(StepOf[f]) \in maskSent[p][DomainOf[f]]
    /\ HandleField(p, f)
    /\ thrown' = (emitted'[f] > emitted[f] /\ ~ Maskable(f))
    /\ masked' = IF emitted'[f] > emitted[f] /\ Maskable(f)
                 THEN [masked EXCEPT ![f] = CreateMasked(f, Decode(bitmasks[DomainOf[f]]))]
                 ELSE masked
    /\ UNCHANGED <<setup, maskSent, messages, bitmasks, overtaken>>

-----------------------------------------------------------------------------

MaskInit ==
    /\ Init
    /\ setup \in Setups
    /\ maskSent = [p \in Sources |-> [d \in Domains |-> {}]]
    /\ messages = [i \in FlushIds |-> <<>>]
    /\ bitmasks = [d \in Domains |-> NoMask]
    /\ thrown = FALSE
    /\ masked = [f \in Fields |-> NoMask]
    /\ overtaken = {}

\* Domains, masks, fields and flushes come through the same dispatcher.
MaskNext == ~ thrown /\ (
    \/ \E p \in Sources, d \in Domains : AddDomain(p, d) /\ UNCHANGED maskVars
    \/ \E p \in Sources, d \in Domains, k \in Steps : AddMask(p, d, k)
    \/ \E p \in Sources, f \in Fields : MaskField(p, f)
    \/ \E p \in Sources, d \in Domains, k \in Steps :
          HandleFlush(p, d, k) /\ UNCHANGED maskVars
    \/ \E p \in Sources : GlobalFlush(p) /\ UNCHANGED maskVars)

MaskSpec == MaskInit /\ [][MaskNext]_allVars

-----------------------------------------------------------------------------
(* Properties *)

\* What the mask of step k says of a global cell: the word of the client that
\* owns it, whatever others have in their halos; a cell of no client is masked.
Owns(d, p, b) ==
    LET def == Definition[d][p]
        col == b % def.ni_global
        row == b \div def.ni_global
    IN  /\ def.ibegin <= col /\ col < def.ibegin + def.ni
        /\ def.jbegin <= row /\ row < def.jbegin + def.nj

LocalCell(def, b) ==
    (b \div def.ni_global - def.jbegin - def.data_jbegin) * def.data_ni
    + (b % def.ni_global) - def.ibegin - def.data_ibegin

GlobalMask(d, k) ==
    [b \in GlobalCells(d) |->
        \E p \in Members[d] : Owns(d, p, b) /\ setup.bits[d][k][p][LocalCell(Definition[d][p], b)]]

AllMasksSent(d, k) == \A p \in Members[d] : k \in maskSent[p][d]

\* The mask of a domain is, from the arrival of its last part on, the global mask
\* of the newest step that all clients have sent, through two encodings and in
\* whichever order the parts came; no part is kept back to stand for another.
\* Where the parts of two steps have one field id (Mask::addPartialMask), that
\* holds as long as no client is a whole mask ahead of another.
MaskExact ==
    \A d \in Domains \ overtaken, k \in MaskSteps : AllMasksSent(d, k) =>
        /\ (\E p \in Members[d], j \in MaskSteps :
               j > k /\ MaskId(d, j) = MaskId(d, k) /\ j \in maskSent[p][d])
           \/ messages[MaskId(d, k)] = <<>>
        /\ (\E j \in MaskSteps : j > k /\ AllMasksSent(d, j))
           \/ (bitmasks[d] # NoMask /\ Decode(bitmasks[d]) = GlobalMask(d, k))

\* A field that leaves the aggregation finds a mask, and it is the mask of its own
\* step: neither missing yet nor replaced by that of a client that is a step ahead.
\* Masked cells are never shifted, be they marked as missing or not (apply-bitmap).
FieldsMasked ==
    \A f \in Fields :
        LET mask == GlobalMask(DomainOf[f], MaskOf(StepOf[f]))
        IN  emitted[f] > 0 /\ DomainOf[f] \notin overtaken =>
              masked[f] = [b \in DOMAIN mask |->
                              IF mask[b] THEN IF f \in OffsetFields THEN "shifted" ELSE "value"
                              ELSE IF setup.applyBitmap THEN "missing" ELSE "value"]

=============================================================================
