----------------------------- MODULE MCKernel ------------------------------
EXTENDS Kernel

Fn(class, subclass, prog_if, bars) ==
    [class |-> class, subclass |-> subclass, prog_if |-> prog_if, bars |-> bars]

\* One machine with IDE, NVMe and AHCI; one with an NVMHCI controller, which
\* has a 1 where the class is looked for, and an AHCI one that answers twice, so that
\* the table fills; one with more functions than the PCI table holds.
Ide == Fn(1, 1, 128, {0})
Ahci == Fn(1, 6, 1, {5})
Machines ==
    {<<Ide, Fn(1, 8, 2, {0}), Ahci>>, <<Fn(1, 8, 1, {0}), Ahci, Ahci>>,
     <<Fn(1, 8, 1, {}), Fn(6, 0, 0, {}), Ide, Ahci>>}

Found(magic, method, memory, more) ==
    [magic |-> magic, method |-> method, memory |-> memory, more |-> more]
Memories ==
    {Found(TRUE, 0, TRUE, 2), Found(TRUE, 2, FALSE, 0), Found(FALSE, 2, TRUE, 5)}

Texts ==
    {<<>>, <<"text">>, <<"text", "\n">>, <<"row">>, <<"text", "\r">>, <<"\t", "text">>,
     <<"\n", "text", "row", "text">>}
=============================================================================
