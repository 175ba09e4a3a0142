-------------------------- MODULE MCArchitectureStats --------------------------
(***************************************************************************)
(* Four multipliers with registers, a buffer that may be overbooked and a  *)
(* DRAM without a size; a data space A that is read and Z that is updated. *)
(* Both are read over one multicast network, partial sums come back over a *)
(* tree to the registers and over a network of its own to the buffer, and  *)
(* the network of the DRAM, which does not reduce, is inferred: networks   *)
(* of every type, one of them met twice. The mappings keep dense and       *)
(* compressed tiles, with and without metadata, layouts with bank          *)
(* conflicts whose requests straddle their lines in part, transfers of     *)
(* other factors than the mapping before, and some fail at each of the     *)
(* checks.                                                                 *)
(***************************************************************************)
EXTENDS ArchitectureStats

MCDRAMEnergy(bits) == Int2Q(bits)
MCSRAMEnergy(lines, bits, banks, ports) == Q(lines * bits, 8)
MCSRAMArea(lines, bits, banks, ports) == Int2Q(lines * bits)
MCAdderEnergy(a, b) == Q(a + b, 4)
MCMultiplierEnergy(a, b) == Q(a * b, 2)
MCMultiplierArea(a, b) == Int2Q(a * b)
MCWireEnergy(bits, mm) == QMul(Int2Q(bits), mm)
MCSide(area) == QDiv(area, Int2Q(16))

MCRegisters ==
  [name |-> "Registers", depth |-> 8, width |-> 64, word_bits |-> 8, n_ports |-> 2, elements |-> 4, meshX |-> 2,
   network_read |-> "NoC", network_update |-> "Tree", network_fill |-> "NoC", network_drain |-> "Up"]

\* An effective size of 12 words and 96 bits of metadata.
MCBuffer ==
  [name |-> "Buffer", depth |-> 6, width |-> 64, word_bits |-> 8, cluster_size |-> 2, n_ports |-> 1,
   multiple_buffering |-> Int2Q(2), instances |-> 4, meshX |-> 2,
   metadata_storage_width |-> 8, metadata_storage_depth |-> 24, metadata_datawidth |-> 4,
   shared_bandwidth |-> Int2Q(1), read_bandwidth |-> Int2Q(2), allow_overbooking |-> TRUE,
   min_utilization |-> Q(1, 6),
   network_read |-> "NoC", network_update |-> "Up", addr_gen_energy |-> Q(1, 8)]

MCDRAM ==
  [name |-> "DRAM", class |-> "DRAM", width |-> 64, block_size |-> 8, bandwidth |-> Int2Q(1),
   power_gated_at |-> "Buffer", word_bits |-> 8,
   network_fill_latency |-> 1, network_drain_latency |-> 1,
   per_dataspace_bandwidth_consumption_scale |-> [A |-> Q(1, 2)]]

MCStorage == <<MCRegisters, MCBuffer, MCDRAM>>

MCArithmetic == [name |-> "MAC", word_bits |-> 8, elements |-> 4, meshX |-> 2,
                 network_operand |-> "NoC", network_result |-> "Tree"]

MCUserNetworks ==
  [NoC |-> NetworkSpecs([name |-> "NoC", fill_latency |-> 2, action_name |-> "send"], "SimpleMulticast"),
   Tree |-> NetworkSpecs([name |-> "Tree", word_bits |-> 8, adder_energy |-> Q(1, 2), wire_energy |-> Int2Q(1)],
                         "ReductionTree"),
   Up |-> NetworkSpecs([name |-> "Up", word_bits |-> 8, router_energy |-> Q(1, 2), wire_energy |-> Int2Q(1),
                        fill_latency |-> 2, drain_latency |-> 1], "Legacy")]

MCEnergyTables ==
  [MAC |-> [mac |-> {Int2Q(2), Int2Q(3)}, mac_gated |-> {Int2Q(1)}],
   Buffer |-> [action \in {<<"", "write">>, <<"random", "read">>, <<"gated", "read">>, Leak} |->
                 {IF action = Leak THEN Q(1, 4) ELSE Int2Q(2)}],
   wire |-> [transfer_random |-> {Q(1, 2), Int2Q(1)}]]

MCMulticastTables == [NoC |-> [action \in {<<"send">>} |-> [destinations \in {1, 2, 4} |-> Q(1 + destinations, 2)]]]

MCAreaTables == [DRAM |-> Zero]

------------------------------------------------------------------------------
Transfers(n, multicast) ==
  [factors \in {<<multicast, 1>>} |-> [accesses |-> n, hops |-> 2 * n]]

\* n reads and fills, or updates, of a tile over two instances.
Tile(pv, shape, n, parent) ==
  [shape |-> shape, size |-> shape, compressed |-> FALSE, has_metadata |-> FALSE,
   occupancies |-> <<shape>>, formats |-> <<>>,
   data_accesses |-> [op \in DataOps \cup Counts |->
      CASE op = <<"random", "read">> -> n
        [] op = <<"random", "fill">> /\ pv = "A" -> shape
        [] op = <<"random", "update">> /\ pv = "Z" -> n
        [] OTHER -> 0],
   format_accesses |-> [op \in FormatOps |-> <<>>],
   reads |-> n, updates |-> IF pv = "Z" THEN n ELSE 0, fills |-> IF pv = "A" THEN shape ELSE 0,
   temporal_reductions |-> IF pv = "Z" THEN n ELSE 0,
   max_x_expansion |-> 2, max_y_expansion |-> 1,
   avg_replication_factor |-> Int2Q(2), replication_factor |-> 2, partition_size |-> shape,
   access_stats |-> Transfers(n, 2), distributed_access_stats |-> NoTransfers,
   link_transfers |-> 0, parent |-> parent]

\* In the registers, a word of A and a partial sum of Z.
Register(n) == [A |-> Tile("A", 1, n, {2}), Z |-> Tile("Z", 1, n, {2})]

\* A tile of the one instance of the DRAM.
Outer(tile) == [tile EXCEPT !.max_x_expansion = 1, !.avg_replication_factor = Int2Q(1), !.replication_factor = 1]

\* Nonzeros with a mask of the coordinates and a list of the nonzeros.
Compressed(tile, occupancies) ==
  [tile EXCEPT
     !.compressed = TRUE, !.has_metadata = TRUE, !.occupancies = occupancies,
     !.formats = <<[units |-> tile.shape, per_nonzero |-> FALSE, word_bits |-> 1],
                   [units |-> 1, per_nonzero |-> TRUE, word_bits |-> 4]>>,
     !.data_accesses = [op \in DataOps \cup Counts |->
        IF op = <<"skipped", "read">> THEN tile.data_accesses[<<"random", "read">>] \div 2
        ELSE IF op = <<"random", "read">> THEN tile.data_accesses[op] \div 2
        ELSE tile.data_accesses[op]],
     !.format_accesses = [op \in FormatOps |->
        IF op \in {<<"random", "metadata_read">>, <<"gated", "metadata_read">>} THEN <<4, 2>> ELSE <<0, 0>>]]

Loop(dim, end, spatial) == [dim |-> dim, end |-> end, spatial |-> spatial]

MCLoops == <<<<Loop("K", 2, TRUE)>>, <<Loop("M", 4, FALSE)>>, <<Loop("K", 2, FALSE)>>>>

MCCompute(n) ==
  [max_x_expansion |-> 2, max_y_expansion |-> 1, avg_replication_factor |-> Int2Q(2),
   replication_factor |-> 2, accesses |-> n \div 2,
   fine_grained_accesses |-> [op \in ComputeOps |-> IF op = "random_compute" THEN n ELSE 0]]

Dense ==
  [tiles |-> <<Register(16),
               [A |-> Tile("A", 8, 16, {3}), Z |-> Tile("Z", 4, 16, {3})],
               [A |-> Outer(Tile("A", 16, 16, {})), Z |-> Outer(Tile("Z", 4, 8, {}))]>>,
   masks |-> <<{"A", "Z"}, {"A", "Z"}, {"A", "Z"}>>,
   thresholds |-> <<Int2Q(1), Int2Q(1), Int2Q(1)>>,
   loops |-> MCLoops, layouts |-> {}, compute |-> MCCompute(32)]

\* Of the buffer 7 words are set aside for A, whose largest tiles do not fit.
Overbooked ==
  [Dense EXCEPT
     !.tiles[2] = [A |-> Compressed(Tile("A", 12, 16, {3}), <<2, 4, 5, 8>>), Z |-> Tile("Z", 4, 8, {3})],
     !.tiles[3] = [A |-> Compressed(Outer(Tile("A", 24, 16, {})), <<8, 10, 12, 16>>), Z |-> Outer(Tile("Z", 4, 8, {}))],
     !.thresholds[2] = Q(1, 2),
     !.compute.fine_grained_accesses =
        [random_compute |-> 12, gated_compute |-> 8, skipped_compute |-> 12]]

\* All four multipliers at work, on a tile of two words.
Busy ==
  [Dense EXCEPT
     !.tiles[2] = [A |-> Tile("A", 2, 2, {3}), Z |-> Tile("Z", 2, 2, {3})],
     !.tiles[3] = [A |-> Outer(Tile("A", 2, 2, {})), Z |-> Outer(Tile("Z", 2, 2, {}))],
     !.compute = [max_x_expansion |-> 2, max_y_expansion |-> 2, avg_replication_factor |-> Int2Q(4),
                  replication_factor |-> 4, accesses |-> 16,
                  fine_grained_accesses |-> [random_compute |-> 40, gated_compute |-> 24, skipped_compute |-> 0]]]

\* Partial sums that no two multipliers have in common; and A not kept in the registers.
Scattered == [Dense EXCEPT !.tiles[1]["Z"].access_stats = Transfers(16, 1), !.tiles[3]["Z"].access_stats = Transfers(8, 1)]
Streamed == [Dense EXCEPT !.masks[1] = {"Z"}, !.tiles[1]["A"] = [Tile("A", 0, 0, {}) EXCEPT !.access_stats = NoTransfers]]

\* A layout of so many words a line, along M and K together and along M.
Layout(words, of_M, ports) ==
  [ranks |-> <<[factor |-> words, terms |-> <<<<"M", 1>>, <<"K", 1>>>>], [factor |-> of_M, terms |-> <<<<"M", 1>>>>]>>,
   ports |-> ports]

\* Of few accesses.  From the registers 3 words along M and K are read at once, of lines of 7; of the
\* buffer 5 or 7, of lines of 3 or 4; of the DRAM 7 or 9, of lines of 3 or 4, and 4 or 6 along M, two in a line.
LaidOut(extent, words, ports) ==
  [Dense EXCEPT
     !.loops = <<<<Loop("M", extent, FALSE), Loop("M", 2, TRUE), Loop("K", 2, TRUE)>>, <<Loop("K", 2, FALSE)>>, <<>>>>,
     !.tiles = <<Register(4),
                 [A |-> Tile("A", 4, 4, {3}), Z |-> Tile("Z", 4, 4, {3})],
                 [A |-> Outer(Tile("A", 8, 4, {})), Z |-> Outer(Tile("Z", 4, 4, {}))]>>,
     !.layouts =
        {<<[A |-> Layout(7, 1, ports), Z |-> Layout(7, 1, 2)],
           [A |-> Layout(words, 1, ports), Z |-> Layout(2, 2, 2)],
           [A |-> Layout(words, 2, ports), Z |-> Layout(4, 2, 2)]>>}]

TooLarge == [Dense EXCEPT !.tiles[2]["A"] = Tile("A", 10, 16, {3})]
TooWide == [Dense EXCEPT !.tiles[2]["Z"].max_x_expansion = 4]
TooUnsure == [Overbooked EXCEPT !.tiles[2]["A"].occupancies = <<2, 4, 10, 12>>, !.thresholds[2] = Q(3, 4)]
TooMuchCompute == [Dense EXCEPT !.compute.max_x_expansion = 4]
TooSmall == [Dense EXCEPT !.tiles[2]["A"] = Tile("A", 1, 16, {3}), !.tiles[2]["Z"] = Tile("Z", 0, 8, {3}),
                          !.masks[2] = {"A"}]

\* A tile that fits what is set aside for it to the word, at half the confidence.
Exact ==
  [Overbooked EXCEPT !.tiles[2]["A"].occupancies = <<1, 5, 6, 12>>,
                     !.tiles[2]["Z"] = Tile("Z", 6, 8, {3})]

\* Kept nowhere; enough of the buffer used only when the tile is not scaled down
\* to the confidence; too large for the buffer but for the zeros.
Bypassed == [Dense EXCEPT !.masks = <<{"Z"}, {"Z"}, {"Z"}>>]
Scaled == [TooSmall EXCEPT !.tiles[2]["A"] = Tile("A", 2, 16, {3}), !.thresholds[2] = Q(1, 2)]
Uncompressed ==
  [Overbooked EXCEPT !.tiles[2]["A"].compressed = FALSE, !.tiles[2]["A"].shape = 24,
                     !.tiles[2]["A"].occupancies = <<2, 4, 5, 8>>]

MCMappings ==
  {Dense, Overbooked, Exact, Busy, Scattered, Streamed, TooLarge, TooWide, TooUnsure, TooMuchCompute, TooSmall,
   Bypassed, Scaled, Uncompressed}
    \cup {LaidOut(extent, words, ports) : extent \in {2, 3}, words \in {3, 4}, ports \in {1, 2}}

MCDataSpaces == {"A", "Z"}
MCReadWrite == {"Z"}
MCResolution == Q(1, 256)
===============================================================================
