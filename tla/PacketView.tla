----------------------------- MODULE PacketView -----------------------------
(***************************************************************************)
(* What the window shows of a packet (packet_view.rs): it is dissected by  *)
(* the layout of its id, or by guessing, when it is traced, and again from *)
(* the bytes kept whenever the user switches between one line and many.    *)
(***************************************************************************)
EXTENDS Naturals

CONSTANTS
  Code,        \* the ids packets may have
  Named,       \* those of PacketType
  Containers,  \* CompressedData and CompressedData2
  Depth        \* bound on packets in packets

ASSUME ViewAssumption ==
  /\ Containers \subseteq Named /\ Named \subseteq Code
  /\ Depth \in Nat

Source == {"Client", "Server"}

(* The bytes of a packet: whether the layout of its id reads them, whether a
   guess reads them (all, or what the layout leaves), what is packed inside. *)
Plain == [id : Code, fits : BOOLEAN, guess : BOOLEAN, inside : {<<>>}]

Packing(contents) == [id : Containers, fits : {TRUE}, guess : {FALSE}, inside : contents]

Packet ==
  LET upTo[n \in 0 .. Depth] ==
        IF n = 0 THEN Plain ELSE upTo[n - 1] \cup Packing(upTo[n - 1])
  IN upTo[Depth]

-----------------------------------------------------------------------------
(* A container whose content cannot be decompressed does not fit. *)
Opens(p) == p.inside # <<>>

KindOf(p) ==
  IF p.id \in Named
    THEN IF p.fits /\ p.id \notin Containers THEN "Structured" ELSE "Combined"
    ELSE IF p.guess THEN "Guessed" ELSE "Binary"

(* The texts differ in whether they are pretty and in what was read. *)
View(source, p, pretty) ==
  [id |-> p.id, named |-> p.id \in Named, source |-> source, kind |-> KindOf(p),
   data |-> p, pretty |-> pretty, compressed |-> FALSE]

(* dissect: what is packed is dissected in place of what packs it. *)
Dissect(source, packet, pretty) ==
  LET show[p \in Packet] ==
        IF Opens(p) THEN [show[p.inside] EXCEPT !.compressed = TRUE]
                    ELSE View(source, p, pretty)
  IN show[packet]

(* Mutant: the view is dissected like a packet that was just traced. *)
RedissectAnew(view, pretty) == Dissect(view.source, view.data, pretty)

(* redissect *)
Redissect(view, pretty) ==
  [Dissect(view.source, view.data, pretty) EXCEPT !.compressed = view.compressed]
=============================================================================
