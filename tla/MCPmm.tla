---- MODULE MCPmm ----
(* Pmm on five memory maps, with bytes of 2 bits and pages of 2 bytes.     *)
EXTENDS Pmm

conv(start, pages) == [conventional |-> TRUE, PhysicalStart |-> start, NumberOfPages |-> pages]
other(start, pages) == [conventional |-> FALSE, PhysicalStart |-> start, NumberOfPages |-> pages]

MCMemMaps == {
    \* low memory too small for the bitmap, a hole, loader data, a tail bit
    <<conv(0, 2), other(2, 1), conv(3, 4), other(7, 1), conv(8, 1)>>,
    \* the first region is large enough but starts at address 0
    <<conv(0, 4), other(4, 1), conv(5, 3)>>,
    \* the only region starts at address 0: no room for the bitmap
    <<conv(0, 5)>>,
    \* the bitmap fills its region to the last byte, unordered descriptors
    <<conv(6, 2), other(5, 1), conv(1, 4)>>,
    \* no conventional memory at all
    <<other(0, 3)>> }

\* page numbers clients name: past max_pages of every map but the first
MCPages == 0 .. 9

====
