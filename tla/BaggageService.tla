--------------------------- MODULE BaggageService ---------------------------
(***************************************************************************)
(* baggage.service.ts and the columns its results are stored in. Weights    *)
(* are in grams and fees in cents; the column baggage_weight holds          *)
(* hundredths of a kg.                                                      *)
(***************************************************************************)
EXTENDS Naturals

CONSTANTS
    MaxBaggage,  \* MAX_BAGGAGE_WEIGHT_KG
    FeePerKg     \* EXCESS_FEE_PER_KG

ASSUME BaggageAssumption == MaxBaggage \in Nat /\ FeePerKg \in Nat

IsOverweight(weight) == weight > MaxBaggage

\* Thousandths of a cent, before rounding.
ExactFee(weight) == (weight - MaxBaggage) * FeePerKg

\* Faulty variant: the fee is cut off, not rounded.
RoundedFeesCutOff(weight) == {ExactFee(weight) \div 1000}

\* Math.round to cents of a product of doubles: of two nearest cents, either.
RoundedFees(weight) ==
    {(ExactFee(weight) + 500) \div 1000, (ExactFee(weight) + 499) \div 1000}

\* calculateFee: the fees it may return.
CalculateFee(weight) == IF IsOverweight(weight) THEN RoundedFees(weight) ELSE {0}

\* decimal(5,2): rounded to hundredths, half up, below 1000 kg.
StoredWeight(weight) == (weight + 5) \div 10
FitsColumn(weight) == StoredWeight(weight) < 100000
=============================================================================
