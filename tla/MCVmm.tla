---- MODULE MCVmm ----
(* Vmm with tables of five entries: 625 virtual pages.  The heap shares    *)
(* its top-level entry with the window, as KHEAP_BASE and PASSTHRU_BASE do.*)
EXTENDS Vmm

conv(start, pages) == [conventional |-> TRUE, PhysicalStart |-> start, NumberOfPages |-> pages]
other(start, pages) == [conventional |-> FALSE, PhysicalStart |-> start, NumberOfPages |-> pages]
same(start, pages) == [phys |-> start, virt |-> start, pages |-> pages]

MCMemMaps == {
    \* enough frames for tables and a few heap pages
    <<conv(0, 4), other(4, 3), conv(7, 23)>>,
    <<conv(1, 2), other(3, 5), conv(8, 19)>>,
    \* frames run out while init_vmm maps, and before it starts
    <<conv(0, 2), other(4, 1), conv(5, 9)>>,
    <<conv(5, 3)>>,
    \* no room for the bitmap
    <<conv(0, 9)>> }

\* kernel image, stack, RIP, framebuffer beyond the memory of the map
MCEarlyRanges == <<same(4, 2), same(6, 1), same(4, 1), same(30, 2)>>
MCApicRange == same(32, 1)
MCLateRanges == <<same(6, 1)>>
MCInitramfs == same(3, 1)

MCPages == 0 .. 30

====
