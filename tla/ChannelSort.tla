----------------------------- MODULE ChannelSort -----------------------------
(***************************************************************************)
(* bubbleSortBestChannel of the charger (main.cpp), which ChargerLora      *)
(* states as Quietest: the channel of the lowest reading, the first        *)
(* measured among equals.  A measurement is a record of rssi and channel.  *)
(* A loop is a function from the number of its rounds to the array.        *)
(***************************************************************************)
EXTENDS Naturals, Sequences

\* One comparison: a lower reading moves before a higher one, with its channel.
Compared(arr, j) ==
    IF arr[j + 1].rssi < arr[j].rssi
    THEN [arr EXCEPT ![j] = arr[j + 1], ![j + 1] = arr[j]]
    ELSE arr

\* The i-th pass compares up to the i places at the end that are in order already.
Pass(arr, i) ==
    LET after[j \in 0..(Len(arr) - i)] ==
            IF j = 0 THEN arr ELSE Compared(after[j - 1], j)
    IN  after[Len(arr) - i]

BubbleSorted(arr) ==
    LET after[i \in 0..Len(arr)] == IF i = 0 THEN arr ELSE Pass(after[i - 1], i)
    IN  after[Len(arr)]

bubbleSortBestChannel(arr) == BubbleSorted(arr)[1].channel

=============================================================================
