-------------------------- MODULE StringAlgorithms --------------------------
(* The programs on strings of leetcode/other, misc/include and utils.  A      *)
(* string is a sequence of small numbers; an index of the code is one less    *)
(* than here.                                                                 *)
EXTENDS Integers, SequencesExt

LOCAL Larger(x, y) == IF x < y THEN y ELSE x
LOCAL AbsOf(x) == IF x < 0 THEN -x ELSE x
LOCAL Rest(s, k) == SubSeq(s, k, Len(s))

-----------------------------------------------------------------------------
(* fractionToDecimal: the sign, the part before the point, the digits behind  *)
(* it, and the digit in front of which the parenthesis opens, 0 for none.     *)
RECURSIVE longDivision(_, _, _, _)
longDivision(r, d, digits, seen) ==
  IF r = 0 THEN <<digits, 0>>
  ELSE IF r \in ToSet(seen) THEN <<digits, CHOOSE k \in DOMAIN seen : seen[k] = r>>
  ELSE longDivision((10 * r) % d, d, Append(digits, (10 * r) \div d), Append(seen, r))

fractionToDecimal(n, d) ==
  LET division == longDivision(AbsOf(n) % AbsOf(d), AbsOf(d), << >>, << >>)
  IN  [negative |-> n # 0 /\ (n < 0) # (d < 0), whole |-> AbsOf(n) \div AbsOf(d),
       digits |-> division[1], repeat |-> division[2]]

(* myAtoi, of an int that reaches from -max - 1 to max.                       *)
Plus == 10
Minus == 11
Space == 12

RECURSIVE atoiFrom(_, _, _, _)
atoiFrom(s, res, isNegative, isBeginning) ==
  LET more(r, negative, beginning) == atoiFrom(Tail(s), r, negative, beginning)
  IN  IF s = << >> THEN IF isNegative THEN -res ELSE res
      ELSE IF Head(s) \in 0 .. 9 THEN more(10 * res + Head(s), isNegative, FALSE)
      ELSE IF isBeginning /\ Head(s) = Plus THEN more(res, isNegative, FALSE)
      ELSE IF isBeginning /\ Head(s) = Minus THEN more(res, TRUE, FALSE)
      ELSE IF isBeginning /\ Head(s) = Space THEN more(res, isNegative, TRUE)
      ELSE IF isNegative THEN -res ELSE res

myAtoi(s, max) ==
  LET res == atoiFrom(s, 0, FALSE, TRUE)
  IN  IF res > max THEN max ELSE IF res < -max - 1 THEN -max - 1 ELSE res

-----------------------------------------------------------------------------
(* longestPalindrome: from each run of equal characters outwards.             *)
RECURSIVE widen(_, _, _)
widen(s, l, r) ==
  IF r < Len(s) /\ l > 1 /\ s[r + 1] = s[l - 1] THEN widen(s, l - 1, r + 1) ELSE <<l, r>>

(* Mutant of palindromeFrom: the search goes on behind the palindrome.        *)
RECURSIVE palindromeFromFar(_, _, _, _)
palindromeFromFar(s, mid, start, len) ==
  LET right == Max({k \in mid .. Len(s) : \A j \in mid .. k : s[j] = s[mid]})
      w == widen(s, mid, right)
      width == w[2] - w[1] + 1
  IN  IF mid > Len(s) \/ Len(s) - mid + 1 <= len \div 2 THEN SubSeq(s, start, start + len - 1)
      ELSE palindromeFromFar(s, w[2] + 1, IF width > len THEN w[1] ELSE start, Larger(width, len))

RECURSIVE palindromeFrom(_, _, _, _)
palindromeFrom(s, mid, start, len) ==
  LET right == Max({k \in mid .. Len(s) : \A j \in mid .. k : s[j] = s[mid]})
      w == widen(s, mid, right)
      width == w[2] - w[1] + 1
  IN  IF mid > Len(s) \/ Len(s) - mid + 1 <= len \div 2 THEN SubSeq(s, start, start + len - 1)
      ELSE palindromeFrom(s, right + 1, IF width > len THEN w[1] ELSE start, Larger(width, len))

longestPalindrome(s) == IF Len(s) <= 1 THEN s ELSE palindromeFrom(s, 1, 1, 1)

(* minWindow: the window begin .. end - 1 grows while characters of t are     *)
(* missing and shrinks while none is.                                         *)
RECURSIVE slide(_, _, _, _, _)
slide(s, remaining, begin, end, best) ==
  LET required == \E c \in DOMAIN remaining : remaining[c] > 0
      c == s[IF required THEN end ELSE begin]
  IN  IF begin > Len(s) \/ (required /\ end > Len(s)) THEN best
      ELSE IF required
      THEN slide(s, [x \in DOMAIN remaining |-> remaining[x] - (IF x = c THEN 1 ELSE 0)],
                 begin, end + 1, best)
      ELSE slide(s, [x \in DOMAIN remaining |-> remaining[x] + (IF x = c THEN 1 ELSE 0)],
                 begin + 1, end,
                 IF best = << >> \/ end - begin < Len(best) THEN SubSeq(s, begin, end - 1) ELSE best)

minWindow(s, t) ==
  slide(s, [c \in ToSet(t) |-> Cardinality({k \in DOMAIN t : t[k] = c})], 1, 1, << >>)

-----------------------------------------------------------------------------
(* isValid: 1 and 3 close what 0 and 2 open.                                  *)
RECURSIVE parse(_, _)
parse(s, stk) ==
  IF s = << >> THEN stk = << >>
  ELSE IF Head(s) \in {0, 2} THEN parse(Tail(s), <<Head(s)>> \o stk)
  ELSE stk # << >> /\ Head(stk) = Head(s) - 1 /\ parse(Tail(s), Tail(stk))

isValid(s) == parse(s, << >>)

(* sol of wordPattern2.cc: m gives the letters met so far their words.        *)
RECURSIVE matches(_, _, _)
matches(pattern, context, m) ==
  IF pattern = << >> \/ context = << >> THEN pattern = << >> /\ context = << >>
  ELSE LET c == Head(pattern)
       IN  \E i \in DOMAIN context :
             LET t == SubSeq(context, 1, i)
             IN  IF c \in DOMAIN m
                 THEN m[c] = t /\ matches(Tail(pattern), Rest(context, i + 1), m)
                 ELSE /\ \A b \in DOMAIN m : m[b] # t
                      /\ matches(Tail(pattern), Rest(context, i + 1),
                                 [b \in DOMAIN m \cup {c} |-> IF b = c THEN t ELSE m[b]])

sol(pattern, context) == matches(pattern, context, [b \in {} |-> << >>])

(* convert of zigzag.cc.                                                      *)
convert(s, numRows) ==
  LET step(st, i) ==
        LET increase == IF (i - 1) % (numRows - 1) = 0 THEN -st.increase ELSE st.increase
        IN  [rows |-> [st.rows EXCEPT ![st.idx] = Append(@, s[i])],
             idx |-> st.idx + increase, increase |-> increase]
      start == [rows |-> [k \in 1 .. numRows |-> << >>], idx |-> 1, increase |-> -1]
  IN  IF numRows = 1 THEN s
      ELSE FlattenSeq(FoldLeft(step, start, [i \in DOMAIN s |-> i]).rows)

(* SplitString: the pieces of input from cur on.                              *)
RECURSIVE split(_, _, _)
split(input, sep, cur) ==
  LET found == {k \in cur .. Len(input) + 1 - Len(sep) : SubSeq(input, k, k + Len(sep) - 1) = sep}
      next == Min(found)
  IN  IF found = {} THEN <<Rest(input, cur)>>
      ELSE <<SubSeq(input, cur, next - 1)>> \o split(input, sep, next + Len(sep))

SplitString(input, sep) == split(input, sep, Len(sep))

(* CSVRow: m_data has the commas, with one in front of the line and one       *)
(* behind it; a field lies between two of them.                               *)
readNextRow(line, comma) ==
  <<0>> \o SelectSeq([k \in DOMAIN line |-> k], LAMBDA k : line[k] = comma) \o <<Len(line) + 1>>
Field(line, data, index) == SubSeq(line, data[index] + 1, data[index + 1] - 1)
CSVRow(line, comma) ==
  LET data == readNextRow(line, comma)
  IN  [index \in 1 .. Len(data) - 1 |-> Field(line, data, index)]

(* CSVIterator: getline takes a line at a time, the last one also without a   *)
(* newline at its end; the range ends when there is none.                     *)
RECURSIVE CSVRange(_, _, _)
CSVRange(text, newline, comma) ==
  LET ends == {k \in DOMAIN text : text[k] = newline}
      end == IF ends = {} THEN Len(text) + 1 ELSE Min(ends)
  IN  IF text = << >> THEN << >>
      ELSE <<CSVRow(SubSeq(text, 1, end - 1), comma)>> \o CSVRange(Rest(text, end + 1), newline, comma)

(* removeContinousSpaces: unique() keeps the first of equal neighbours.       *)
removeContinousSpaces(str, space) ==
  LET kept == SelectSeq([k \in DOMAIN str |-> k],
                        LAMBDA k : ~(k > 1 /\ str[k] = space /\ str[k - 1] = space))
  IN  [k \in DOMAIN kept |-> str[kept[k]]]

(* sio_ltoa of csapp.c: digits of |v| from the last one on, then the sign,    *)
(* then all of it reversed in place by the two indices.                       *)
RECURSIVE ltoaDigits(_, _)
ltoaDigits(v, b) == IF v \div b > 0 THEN <<v % b>> \o ltoaDigits(v \div b, b) ELSE <<v % b>>

RECURSIVE sio_reverse(_, _, _)
sio_reverse(s, i, j) ==
  IF i < j THEN sio_reverse([s EXCEPT ![i] = s[j], ![j] = s[i]], i + 1, j - 1) ELSE s

sio_ltoa(v, b) ==
  LET digits == ltoaDigits(AbsOf(v), b)
      s == IF v < 0 THEN Append(digits, Minus) ELSE digits
  IN  sio_reverse(s, 1, Len(s))

-----------------------------------------------------------------------------
(* What the programs are compared with.                                       *)
LOCAL NumberOf(digits) == FoldLeft(LAMBDA n, d : 10 * n + d, 0, digits)
LOCAL SubStrings(s) == {SubSeq(s, q[1], q[2]) : q \in {q \in (DOMAIN s) \X (DOMAIN s) : q[1] <= q[2]}}
LOCAL Covers(w, t) ==
  \A c \in ToSet(t) : Cardinality({k \in DOMAIN t : t[k] = c}) <= Cardinality({k \in DOMAIN w : w[k] = c})
RECURSIVE Balanced(_)
Balanced(s) ==
  s = << >> \/ \E k \in 1 .. Len(s) - 1 :
                 /\ s[k] \in {0, 2} /\ s[k + 1] = s[k] + 1
                 /\ Balanced(SubSeq(s, 1, k - 1) \o Rest(s, k + 2))
LOCAL Assigned(pattern, context) ==
  pattern # << >> /\ \E cut \in SUBSET (1 .. Len(context) - 1) :
    LET at == <<0>> \o SetToSortSeq(cut, <) \o <<Len(context)>>
        piece(k) == SubSeq(context, at[k] + 1, at[k + 1])
    IN  /\ Cardinality(cut) = Len(pattern) - 1
        /\ \A j, k \in DOMAIN pattern : pattern[j] = pattern[k] <=> piece(j) = piece(k)
LOCAL ZigzagRow(i, numRows) ==
  LET t == (i - 1) % (2 * (numRows - 1)) IN Min({t, 2 * (numRows - 1) - t})
LOCAL JoinWith(pieces, sep) ==
  FoldLeft(LAMBDA s, p : s \o sep \o p, Head(pieces), Tail(pieces))

(* The prefix of s that is a number: spaces, a sign, digits.                  *)
LOCAL AtoiOf(s, max) ==
  LET from == Min({Len(s) + 1} \cup {k \in DOMAIN s : s[k] # Space})
      sign == from <= Len(s) /\ s[from] \in {Plus, Minus}
      first == IF sign THEN from + 1 ELSE from
      last == Max({first - 1} \cup {k \in first .. Len(s) : \A j \in first .. k : s[j] <= 9})
      n == NumberOf(SubSeq(s, first, last))
      signed == IF sign /\ s[from] = Minus THEN -n ELSE n
  IN  Max({-max - 1, Min({max, signed})})

LOCAL ExactFraction(n, d) ==
  LET f == fractionToDecimal(n, d)
      k == Len(f.digits)
      before == IF f.repeat = 0 THEN 0 ELSE f.repeat - 1
      all == NumberOf(<<f.whole>> \o f.digits)
      fixed == NumberOf(<<f.whole>> \o SubSeq(f.digits, 1, before))
  IN  /\ f.negative <=> n * d < 0
      /\ IF f.repeat = 0 THEN AbsOf(n) * 10^k = AbsOf(d) * all
         ELSE AbsOf(n) * (10^k - 10^before) = AbsOf(d) * (all - fixed)

(* What the programs return is what the problem asks for: a decimal fraction  *)
(* with its period that is worth the fraction, the number at the front of a   *)
(* string within the range of an int, a longest palindrome, a shortest        *)
(* window, balanced brackets, an assignment of words to letters, the rows of  *)
(* a zigzag, the pieces between separators of one character, the rows of a    *)
(* file, a number in its digits.                                              *)
StringsRight(s) ==
  LET coded(code) == [k \in DOMAIN s |-> code[s[k] + 1]]
      bits == [k \in DOMAIN s |-> s[k] % 2]
      n == FoldLeft(+, 0, s) - 3
  IN
  /\ \A d \in {-7, 1, 3, 6, 8} : ExactFraction(n, d)
  /\ \A code \in {<<0, 7, Minus, Space>>, <<9, Plus, Minus, 13>>} :
       myAtoi(coded(code), 127) = AtoiOf(coded(code), 127)
  /\ LET p == longestPalindrome(s)
     IN  /\ Reverse(p) = p /\ (s # << >> => p \in SubStrings(s))
         /\ \A w \in SubStrings(s) : Reverse(w) = w => Len(w) <= Len(p)
  /\ \A k \in 1 .. Len(s) - 1 :
       LET t == SubSeq(s, 1, k)
           body == Rest(s, k + 1)
           windows == {w \in SubStrings(body) : Covers(w, t)}
       IN  /\ IF windows = {} THEN minWindow(body, t) = << >>
              ELSE /\ minWindow(body, t) \in windows
                   /\ \A w \in windows : Len(minWindow(body, t)) <= Len(w)
           /\ sol(t, Rest(bits, k + 1)) <=> Assigned(t, Rest(bits, k + 1))
  /\ isValid(s) <=> Balanced(s)
  /\ \A rows \in 2 .. 4 :
       convert(s, rows) = FlattenSeq([r \in 1 .. rows |->
         LET of == SelectSeq([k \in DOMAIN s |-> k], LAMBDA k : ZigzagRow(k, rows) = r - 1)
         IN  [j \in DOMAIN of |-> s[of[j]]]])
  /\ \A pieces \in {SplitString(s, <<0>>), CSVRow(s, 0)} :
       JoinWith(pieces, <<0>>) = s /\ \A k \in DOMAIN pieces : ~Contains(pieces[k], 0)
  /\ LET rows == CSVRange(s, 0, 1)
         lines == [k \in DOMAIN rows |-> JoinWith(rows[k], <<1>>)]
     IN  FlattenSeq([k \in DOMAIN lines |-> Append(lines[k], 0)]) =
           IF s = << >> \/ Last(s) = 0 THEN s ELSE Append(s, 0)
  /\ LET t == removeContinousSpaces(s, 0)
     IN  /\ \A k \in 1 .. Len(t) - 1 : ~(t[k] = 0 /\ t[k + 1] = 0)
         /\ SelectSeq(t, LAMBDA c : c # 0) = SelectSeq(s, LAMBDA c : c # 0)
         /\ \A k \in 1 .. Len(s) : s[k] = 0 => Contains(t, 0)
  /\ LET text == sio_ltoa(n, 2)
         digits == IF n < 0 THEN Tail(text) ELSE text
     IN  /\ n < 0 <=> Head(text) = Minus
         /\ FoldLeft(LAMBDA v, d : 2 * v + d, 0, digits) = AbsOf(n)
         /\ Head(digits) = 0 => n = 0
=============================================================================
