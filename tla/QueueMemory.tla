----------------------------- MODULE QueueMemory ----------------------------
(***************************************************************************)
(* The memory the VirtIO drivers hand to their devices: setup_queue of     *)
(* virtio_blk, virtio_rng and virtio_gpu places the rings and the buffers  *)
(* in a static byte array, at the first page boundary inside it, and       *)
(* clears them.  An array of bytes may start anywhere: slack is how far    *)
(* the boundary is from its start.                                         *)
(***************************************************************************)
EXTENDS Integers

VARIABLES layout_of, slack

Page == 4096
UpNone(n) == n
Up8(n) == ((n + 7) \div 8) * 8

\* sizes of VirtqAvail<n> and VirtqUsed<n>
AvailSize(n) == 4 + 2 * n
UsedSize(n) == 4 + 8 * n

\* A layout: the array's size, how much is cleared, and the regions, each with
\* its offset from the boundary, its length and the alignment of its type.
Region(at, len, align) == [at |-> at, len |-> len, align |-> align]
BlkLayout ==
    LET off == Up8(UsedSize(16)) IN
    [size |-> 16384, cleared |-> 12288,
     regions |-> {Region(0, 16 * 16, 16), Region(16 * 16, AvailSize(16), 2),
                  Region(Page, UsedSize(16), 4), Region(Page + off, 529, 8)}]
RngLayout ==
    LET off == Up8(UsedSize(8)) IN
    [size |-> 8192, cleared |-> Page + off + 256,
     regions |-> {Region(0, 8 * 16, 16), Region(8 * 16, AvailSize(8), 2),
                  Region(Page, UsedSize(8), 4), Region(Page + off, 256, 1)}]
GpuLayout ==
    [size |-> 12288, cleared |-> 12288,
     regions |-> {Region(0, 8 * 16, 16), Region(8 * 16, AvailSize(8), 2),
                  Region(Page, UsedSize(8), 4),
                  Region(2 * Page, 256, 8), Region(2 * Page + 256, 408, 8)}]
Layout == CASE layout_of = "blk" -> BlkLayout [] layout_of = "rng" -> RngLayout
            [] layout_of = "gpu" -> GpuLayout

QmInit == layout_of \in {"blk", "rng", "gpu"} /\ slack \in 0..(Page - 1)
qmvars == <<layout_of, slack>>

-----------------------------------------------------------------------------
(* The rings and buffers setup_queue carves out are apart from each other, *)
(* aligned for what is stored there, and cleared before the device sees    *)
(* them; what it clears lies inside its array for every start of the array *)
(* of the block driver.  The entropy and gpu drivers' arrays are too small *)
(* for that: they need a start at most so far from a page boundary.        *)
RegionsFit ==
    /\ \A r \in Layout.regions : r.at % r.align = 0 /\ r.at + r.len <= Layout.cleared
    /\ \A r, s \in Layout.regions : r = s \/ r.at + r.len <= s.at \/ s.at + s.len <= r.at
    /\ \/ slack + Layout.cleared <= Layout.size
       \/ layout_of = "rng" /\ slack > 3768
       \/ layout_of = "gpu" /\ slack > 0
=============================================================================
