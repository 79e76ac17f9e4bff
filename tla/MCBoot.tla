---- MODULE MCBoot ----
(* The bootloader on machines of 13 pages, the upper three beyond what    *)
(* the loader maps 1:1.                                                    *)
EXTENDS Boot

at(start, pages) == [start |-> start, pages |-> pages]
mode(format, resolution) == [format |-> format, resolution |-> resolution]

Laptop == [conventional |-> 1 .. 8, volatile |-> {7, 8},
           image |-> at(9, 1), stack |-> at(10, 1), framebuffer |-> at(11, 2),
           kernel |-> 1, ramdisk |-> 1, elf |-> TRUE,
           segments |-> <<at(1, 1), at(2, 1)>>,
           modes |-> <<mode("BitMask", "640x480"), mode("RGB", "800x600"), mode("BGR", "1024x768")>>,
           active |-> 1, edid |-> "1024x768"]

MCMachines == {
    Laptop,
    \* no EDID; the firmware is in a mode the kernel cannot draw in, or in a good one
    [Laptop EXCEPT !.edid = "none", !.stack = at(0, 1), !.volatile = {5}],
    [Laptop EXCEPT !.edid = "none", !.active = 2, !.image = at(10, 2), !.volatile = {3}],
    \* the monitor's resolution only without a linear frame buffer, one of the
    \* usual size, and nothing beyond the 1:1 map
    [Laptop EXCEPT !.image = at(9, 1), !.stack = at(0, 1), !.framebuffer = at(9, 1), !.active = 2,
                   !.modes = <<mode("BltOnly", "1024x768"), mode("RGB", "1920x1080")>>,
                   !.edid = "1024x768", !.volatile = {2, 8}],
    \* a frame buffer at the end of the address space, an empty ramdisk, no ELF
    [Laptop EXCEPT !.framebuffer = at(12, 4), !.edid = "no_clock"],
    [Laptop EXCEPT !.framebuffer = at(12, 4), !.segments = <<at(4, 2)>>],
    [Laptop EXCEPT !.ramdisk = 0],
    [Laptop EXCEPT !.elf = FALSE] }

====
