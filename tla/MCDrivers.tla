------------------------------ MODULE MCDrivers ------------------------------
EXTENDS InputDrivers

Bar(io, address) == [io |-> io, address |-> address]
Card(line, bars) == [card |-> TRUE, header |-> 0, line |-> line, bars |-> bars]
Bridge == [card |-> FALSE, header |-> 1, line |-> 0,
           bars |-> <<Bar(FALSE, 16), Bar(FALSE, 0)>>]

NoSlot == [multi |-> FALSE, functions |-> <<>>]
Single(f) == [multi |-> FALSE, functions |-> [n \in {0} |-> f]]
Double(f, g) == [multi |-> TRUE, functions |-> [n \in {0, 1} |-> IF n = 0 THEN f ELSE g]]

TwoPorts == Card(10, <<Bar(TRUE, 16), Bar(TRUE, 32)>>)
OnMouseLine == Card(12, <<Bar(TRUE, 16), Bar(FALSE, 0)>>)

MCMachines == {<<NoSlot, Double(Bridge, OnMouseLine), Single(TwoPorts)>>}

MCPackets == {<<9, 0, 30>>}
=============================================================================
