-------------------------- MODULE MCAddressSpaces --------------------------
(***************************************************************************)
(* Instances of AddressSpaces: tables of two entries, the upper one of the *)
(* PML4 being the kernel's half.                                           *)
(***************************************************************************)
EXTENDS AddressSpaces

\* The kernel image, in the first page table of the kernel's half.
MCBootRegion == << <<1, 0, 0, 0>> >>

\* The other page of that table, and two pages of a page table of their own.
MCKernelRegions == {<< <<1, 0, 0, 1>> >>, << <<1, 0, 1, 0>>, <<1, 0, 1, 1>> >>}

\* The pages of a thread, lowest first: stack, TLS and argv.
MCThreadRegions == << << <<0, 0, 0, 0>> >>, << <<0, 0, 0, 1>> >>, << <<0, 0, 1, 0>> >> >>

\* A segment of two pages in two page tables, with another one in its first page.
MCPrograms == { << << <<0, 1, 0, 1>>, <<0, 1, 1, 0>> >>, << <<0, 1, 0, 1>> >> >> }

\* What vmMap grants: the pages of the segment, in force or not, and a page in a
\* table of its own.
MCUserRegions == {<< <<0, 1, 0, 1>>, <<0, 1, 1, 0>> >>, << <<0, 0, 1, 1>> >>}

\* Frames 0 .. 4 hold the firmware and the kernel.  The memory map has a hole there
\* and one at the end, where the device is, so that the bitmap, as long as the memory
\* map, does not reach the last usable frames.
MCMapped == (0 .. Blocks - 3) \ {3, 4}
MCUsable == 5 .. Blocks - 3
MCDevices == {Blocks - 2}

=============================================================================
