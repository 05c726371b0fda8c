-------------------------- MODULE StrategyVaultProofs --------------------------
(* Theorems about StrategyVault, and about it under its PolicyExecutor, for   *)
(* every value of their constants.                                            *)
EXTENDS StrategyVaultMC, SumLemmas, TLAPS

------------------------------------------------------------------------------
(* Arithmetic of shares.  A share's worth of x assets among n shares is       *)
(* (b * x) \div n.                                                            *)

(* What a rounded quotient is.                                                *)
LEMMA Quotient ==
    ASSUME NEW p \in Nat, NEW n \in Nat \ {0}
    PROVE  /\ p \div n \in Nat /\ n * (p \div n) <= p /\ p < n * ((p \div n) + 1)
           /\ CeilDiv(p, n) \in Nat /\ p <= n * CeilDiv(p, n)
  <1>1. \A m \in Nat : /\ m \div n \in Nat /\ n * (m \div n) <= m
                       /\ m < n * ((m \div n) + 1)
    OBVIOUS
  <1>2. p + n - 1 \in Nat
    OBVIOUS
  <1> DEFINE c == (p + n - 1) \div n
  <1>3. c \in Nat /\ p + n - 1 < n * (c + 1)
    BY <1>1, <1>2
  <1>4. c = CeilDiv(p, n)
    BY DEF CeilDiv
  <1> HIDE DEF c
  <1>5. n * (c + 1) = n * c + n /\ n * c \in Nat
    BY <1>3
  <1>6. p <= n * c
    BY <1>3, <1>5
  <1> QED
    BY <1>1, <1>3, <1>4, <1>6

(* A factor may grow, and is cancelled.                                       *)
LEMMA Products ==
    ASSUME NEW a \in Nat, NEW x \in Int, NEW y \in Int
    PROVE  /\ x <= y => a * x <= a * y
           /\ a # 0 /\ a * x <= a * y => x <= y
  <1>1. ASSUME x <= y PROVE a * x <= a * y
    <2>1. PICK d \in Nat : y = x + d
      <3>1. y - x \in Nat /\ y = x + (y - x)
        BY <1>1
      <3> QED
        BY <3>1
    <2>2. a * (x + d) = a * x + a * d /\ a * d \in Nat /\ a * x \in Int
      BY <2>1
    <2> QED
      BY <2>1, <2>2
  <1>2. ASSUME a # 0, a * x <= a * y, ~(x <= y) PROVE FALSE
    <2>1. PICK d \in Nat : x = (y + 1) + d
      <3>1. x - (y + 1) \in Nat /\ x = (y + 1) + (x - (y + 1))
        BY <1>2
      <3> QED
        BY <3>1
    <2>2. a * ((y + 1) + d) = a * y + a + a * d /\ a * d \in Nat /\ a * y \in Int
      BY <2>1
    <2> QED
      BY <1>2, <2>1, <2>2
  <1> QED
    BY <1>1, <1>2

(* Where assets per share do not fall, what b shares were worth whole they    *)
(* still cover.                                                               *)
LEMMA StillCovered ==
    ASSUME NEW b \in Nat, NEW q \in Nat, NEW x \in Nat, NEW n \in Nat \ {0},
           NEW y \in Nat, NEW m \in Nat \ {0}, n * q <= b * x, x * m <= y * n
    PROVE  m * q <= b * y
  <1>1. m * (n * q) <= m * (b * x)
    <2>1. n * q \in Int /\ b * x \in Int
      OBVIOUS
    <2> QED
      BY <2>1, Products
  <1>2. b * (x * m) <= b * (y * n)
    <2>1. x * m \in Int /\ y * n \in Int
      OBVIOUS
    <2> QED
      BY <2>1, Products
  <1>3. m * (n * q) = n * (m * q) /\ m * (b * x) = b * (x * m) /\ b * (y * n) = n * (b * y)
    OBVIOUS
  <1>4. m * q \in Int /\ b * y \in Int /\ n * (m * q) \in Int /\ b * (x * m) \in Int /\ n * (b * y) \in Int
    OBVIOUS
  <1>5. n * (m * q) <= n * (b * y)
    BY <1>1, <1>2, <1>3, <1>4
  <1> QED
    BY <1>4, <1>5, Products

(* Shares are bought at no less than they are worth: nobody's lose value.     *)
LEMMA BuyingDilutesNobody ==
    ASSUME NEW b \in Nat, NEW x \in Nat, NEW n \in Nat \ {0},
           NEW assets \in Nat, NEW shares \in Nat, shares * x <= assets * n
    PROVE  (b * x) \div n <= (b * (x + assets)) \div (n + shares)
  <1> DEFINE q == (b * x) \div n
             y == x + assets
             m == n + shares
             r == (b * y) \div m
  <1>1. b * x \in Nat /\ b * y \in Nat /\ y \in Nat /\ m \in Nat \ {0}
    OBVIOUS
  <1>2. q \in Nat /\ n * q <= b * x /\ r \in Nat /\ b * y < m * (r + 1)
    BY <1>1, Quotient
  <1>3. x * m <= y * n
    <2>1. x * m = x * n + shares * x /\ y * n = x * n + assets * n
      OBVIOUS
    <2>2. x * n \in Int /\ shares * x \in Int /\ assets * n \in Int
      OBVIOUS
    <2> QED
      BY <2>1, <2>2
  <1> HIDE DEF q, y, m, r
  <1>4. m * q <= b * y
    BY <1>1, <1>2, <1>3, StillCovered
  <1>5. q < r + 1
    <2>1. SUFFICES ASSUME r + 1 <= q PROVE FALSE
      BY <1>2
    <2>2. m * (r + 1) <= m * q /\ m * (r + 1) \in Int /\ m * q \in Int
      BY <1>1, <1>2, <2>1, Products
    <2> QED
      BY <1>1, <1>2, <1>4, <2>2
  <1>6. q <= r
    BY <1>2, <1>5
  <1> QED
    BY <1>6 DEF q, r, y, m

(* Shares are paid at most what they are worth, and a movement may lose       *)
(* something: the rest of the shares lose no more than that.                  *)
LEMMA PayingCostsTheLoss ==
    ASSUME NEW b \in Nat, NEW x \in Nat, NEW n \in Nat \ {0},
           NEW assets \in Nat, NEW shares \in Nat, NEW loss \in Nat, NEW slip \in Nat,
           assets * n <= shares * x, loss <= slip,
           assets + loss <= x, shares < n, b <= n - shares
    PROVE  (b * x) \div n <= (b * (x - assets - loss)) \div (n - shares) + slip
  <1> DEFINE q == (b * x) \div n
             y == x - assets
             z == x - assets - loss
             m == n - shares
             r == (b * z) \div m
  <1>1. y \in Nat /\ z \in Nat /\ m \in Nat \ {0} /\ z = y - loss /\ b <= m
    OBVIOUS
  <1>2. q \in Nat /\ n * q <= b * x
    <2>1. b * x \in Nat
      OBVIOUS
    <2> QED
      BY <2>1, Quotient
  <1>3. x * m <= y * n
    <2>1. x * m = x * n - shares * x /\ y * n = x * n - assets * n
      OBVIOUS
    <2>2. x * n \in Int /\ shares * x \in Int /\ assets * n \in Int
      OBVIOUS
    <2> QED
      BY <2>1, <2>2
  <1> HIDE DEF q, y, z, m
  <1>4. r \in Nat /\ b * z < m * (r + 1)
    <2>1. b * z \in Nat
      BY <1>1
    <2> QED
      BY <1>1, <2>1, Quotient
  <1> HIDE DEF r
  <1>5. m * q <= b * y
    BY <1>1, <1>2, <1>3, StillCovered
  <1>6. q <= r + slip
    <2>1. SUFFICES ASSUME r + slip + 1 <= q PROVE FALSE
      BY <1>2, <1>4
    <2>2. m * (r + slip + 1) <= m * q
      BY <1>1, <1>2, <1>4, <2>1, Products
    <2>3. m * (r + slip + 1) = m * (r + 1) + m * slip
      BY <1>1, <1>4
    <2>4. b * loss <= b * slip /\ slip * b <= slip * m
      BY <1>1, Products
    <2>5. b * z = b * y - b * loss
      BY <1>1
    <2>6. slip * b = b * slip /\ slip * m = m * slip
      BY <1>1
    <2>7. /\ m * q \in Int /\ m * (r + 1) \in Int /\ m * slip \in Int /\ b * loss \in Int
          /\ b * slip \in Int /\ b * z \in Int /\ b * y \in Int
      BY <1>1, <1>2, <1>4
    <2> QED
      BY ONLY <1>4, <1>5, <2>2, <2>3, <2>4, <2>5, <2>6, <2>7
  <1> QED
    BY <1>6 DEF q, r, z, m

------------------------------------------------------------------------------
(* The vault's books: the supply is what the holders have.                    *)

SharesAddUp == totalSupply = SumFunctionOnSet(balanceOf, Holders)

VaultFits == VaultTypeOK /\ SharesAddUp

(* Conversions of numbers are numbers.                                        *)
LEMMA Conversions ==
    ASSUME VaultTypeOK, NEW n \in Nat
    PROVE  /\ totalAssets \in Nat /\ totalAssets + 1 \in Nat \ {0}
           /\ totalSupply + VirtualShares \in Nat \ {0}
           /\ SharesDown(n) \in Nat /\ SharesDown(n) * (totalAssets + 1) <= n * (totalSupply + VirtualShares)
           /\ SharesUp(n) \in Nat /\ n * (totalSupply + VirtualShares) <= SharesUp(n) * (totalAssets + 1)
           /\ AssetsDown(n) \in Nat /\ AssetsDown(n) * (totalSupply + VirtualShares) <= n * (totalAssets + 1)
           /\ AssetsUp(n) \in Nat /\ n * (totalAssets + 1) <= AssetsUp(n) * (totalSupply + VirtualShares)
  <1> DEFINE x == totalAssets + 1
             s == totalSupply + VirtualShares
  <1>1. totalAssets \in Nat /\ x \in Nat \ {0} /\ s \in Nat \ {0}
    BY StrategyVaultAssumption DEF VaultTypeOK, totalAssets
  <1>2. SharesDown(n) = (n * s) \div x /\ SharesUp(n) = CeilDiv(n * s, x)
    BY DEF SharesDown, SharesUp
  <1>3. AssetsDown(n) = (n * x) \div s /\ AssetsUp(n) = CeilDiv(n * x, s)
    BY DEF AssetsDown, AssetsUp
  <1> HIDE DEF x, s
  <1>4. n * s \in Nat /\ n * x \in Nat
    BY <1>1
  <1>5. /\ SharesDown(n) \in Nat /\ x * SharesDown(n) <= n * s
        /\ SharesUp(n) \in Nat /\ n * s <= x * SharesUp(n)
    BY <1>1, <1>2, <1>4, Quotient
  <1>6. /\ AssetsDown(n) \in Nat /\ s * AssetsDown(n) <= n * x
        /\ AssetsUp(n) \in Nat /\ n * x <= s * AssetsUp(n)
    BY <1>1, <1>3, <1>4, Quotient
  <1>7. \A i, j \in Nat : i * j = j * i
    OBVIOUS
  <1>8. /\ SharesDown(n) * x = x * SharesDown(n) /\ SharesUp(n) * x = x * SharesUp(n)
        /\ AssetsDown(n) * s = s * AssetsDown(n) /\ AssetsUp(n) * s = s * AssetsUp(n)
    BY <1>1, <1>5, <1>6, <1>7
  <1> QED
    BY <1>1, <1>5, <1>6, <1>8 DEF x, s

(* Two holders' shares are part of the supply.                                *)
LEMMA OthersHoldTheRest ==
    ASSUME VaultFits, NEW h \in Holders
    PROVE  /\ balanceOf[h] \in Nat /\ balanceOf[h] <= totalSupply
           /\ \A g \in Holders \ {h} : balanceOf[g] \in Nat /\ balanceOf[g] <= totalSupply - balanceOf[h]
  <1>1. IsFiniteSet(Holders) /\ \A y \in Holders : balanceOf[y] \in Nat /\ balanceOf[y] \in Int
    BY StrategyVaultAssumption DEF VaultFits, VaultTypeOK
  <1>2. IsFiniteSet(Holders \ {h})
    BY <1>1, FS_RemoveElement
  <1> DEFINE rest == SumFunctionOnSet(balanceOf, Holders \ {h})
  <1>3. totalSupply = balanceOf[h] + rest
    BY <1>1, SumRemove DEF VaultFits, SharesAddUp
  <1>4. rest \in Nat
    <2>1. \A y \in Holders \ {h} : balanceOf[y] \in Nat
      BY <1>1
    <2> QED
      BY <1>2, <2>1, SumNat
  <1>5. ASSUME NEW g \in Holders \ {h} PROVE balanceOf[g] <= rest
    <2> DEFINE others == SumFunctionOnSet(balanceOf, (Holders \ {h}) \ {g})
    <2>1. \A y \in Holders \ {h} : balanceOf[y] \in Int
      BY <1>1
    <2>2. rest = balanceOf[g] + others
      BY <1>2, <2>1, SumRemove
    <2>3. IsFiniteSet((Holders \ {h}) \ {g}) /\ \A y \in (Holders \ {h}) \ {g} : balanceOf[y] \in Nat
      BY <1>1, <1>2, FS_RemoveElement
    <2>4. others \in Nat
      BY <2>3, SumNat
    <2> HIDE DEF others, rest
    <2> QED
      BY <1>1, <2>2, <2>4
  <1> HIDE DEF rest
  <1> QED
    BY <1>1, <1>3, <1>4, <1>5

(* Shares minted to a holder, and shares burnt of his, are in the supply.     *)
LEMMA SharesStayAddedUp ==
    ASSUME VaultFits, NEW h \in Holders, NEW shares \in Nat,
           MintShares(h, shares) \/ BurnShares(h, shares)
    PROVE  /\ balanceOf' \in [Holders -> Nat] /\ totalSupply' \in Nat /\ SharesAddUp'
           /\ \A g \in Holders \ {h} : balanceOf'[g] = balanceOf[g]
  <1>1. balanceOf \in [Holders -> Nat] /\ totalSupply \in Nat /\ IsFiniteSet(Holders)
    BY StrategyVaultAssumption DEF VaultFits, VaultTypeOK
  <1>2. totalSupply = SumFunctionOnSet(balanceOf, Holders)
    BY DEF VaultFits, SharesAddUp
  <1>3. balanceOf[h] <= totalSupply
    BY OthersHoldTheRest
  <1>4. /\ balanceOf' \in [Holders -> Nat] /\ totalSupply' \in Nat
        /\ totalSupply' = totalSupply - balanceOf[h] + balanceOf'[h]
        /\ \A g \in Holders \ {h} : balanceOf'[g] = balanceOf[g]
    <2>1. CASE MintShares(h, shares)
      BY <1>1, <2>1 DEF MintShares
    <2>2. CASE BurnShares(h, shares)
      BY <1>1, <1>3, <2>2 DEF BurnShares, Burnable
    <2> QED
      BY <2>1, <2>2
  <1>5. SumFunctionOnSet(balanceOf', Holders) = SumFunctionOnSet(balanceOf, Holders) - balanceOf[h] + balanceOf'[h]
    <2>1. \A y \in Holders : balanceOf[y] \in Int /\ balanceOf'[y] \in Int
      BY <1>1, <1>4
    <2>2. \A y \in Holders \ {h} : balanceOf[y] = balanceOf'[y]
      BY <1>4
    <2> QED
      BY <1>1, <2>1, <2>2, SumChange
  <1> QED
    BY <1>2, <1>4, <1>5 DEF SharesAddUp

(* What a recall moves: what it realizes, and a loss of at most the slippage. *)
LEMMA RecallMoves ==
    ASSUME idle \in Nat, deployed \in Nat, slippage \in Nat,
           NEW lost \in Losses, NEW assets \in Nat, Recalled(assets, lost)
    PROVE  /\ Realized(assets, lost) \in Nat
           /\ lost \in Nat /\ lost <= slippage
           /\ deployed' \in Nat
           /\ deployed = deployed' + lost + Realized(assets, lost)
  <1>1. /\ lost \in 0 .. slippage /\ lost <= deployed
        /\ assets \in 1 .. deployed
        /\ assets # deployed => assets + lost <= deployed
        /\ deployed' = deployed - lost - Realized(assets, lost)
    BY DEF Losses, Recalled, AdapterPays
  <1>2. CASE assets = deployed
    <2>1. Realized(assets, lost) = deployed - lost
      BY <1>2 DEF Realized
    <2> QED
      BY <1>1, <2>1
  <1>3. CASE assets # deployed
    <2>1. Realized(assets, lost) = assets
      BY <1>3 DEF Realized
    <2> QED
      BY <1>1, <1>3, <2>1
  <1> QED
    BY <1>2, <1>3

(* The books of such a payment, d assets being deployed before and e after.   *)
LEMMA PaymentAddsUp ==
    ASSUME NEW i \in Nat, NEW d \in Nat, NEW e \in Nat, NEW r \in Nat, NEW lost \in Nat,
           NEW assets \in Nat, d = e + lost + r, i + r >= assets
    PROVE  /\ (i + r) - assets \in Nat
           /\ assets + lost <= i + d
           /\ ((i + r) - assets) + e = (i + d) - assets - lost
  OBVIOUS

(* A payment leaves the vault its books, and costs it what it pays and at     *)
(* most the slippage of the recall.                                           *)
LEMMA PaymentCosts ==
    ASSUME VaultFits, NEW h \in Holders, NEW assets \in Nat, NEW shares \in Nat,
           NEW toRecall \in Nat, PayOut(h, assets, shares, toRecall)
    PROVE  /\ VaultFits'
           /\ \E loss \in Nat : /\ loss <= slippage /\ assets + loss <= totalAssets
                                /\ totalAssets' = totalAssets - assets - loss
  <1>1. /\ idle \in Nat /\ deployed \in Nat /\ slippage \in Nat
        /\ slippage \in Slippages /\ adapterOpen \in BOOLEAN
        /\ slippage' = slippage /\ adapterOpen' = adapterOpen
    BY StrategyVaultAssumption DEF VaultFits, VaultTypeOK, PayOut, adapterVars
  <1>2. balanceOf' \in [Holders -> Nat] /\ totalSupply' \in Nat /\ SharesAddUp'
    BY SharesStayAddedUp DEF PayOut
  <1>3. /\ idle' \in Nat /\ deployed' \in Nat
        /\ \E loss \in Nat : /\ loss <= slippage /\ assets + loss <= idle + deployed
                             /\ idle' + deployed' = (idle + deployed) - assets - loss
    <2>1. CASE toRecall = 0
      <3>1. idle' = idle - assets /\ idle >= assets /\ deployed' = deployed
        BY <2>1 DEF PayOut
      <3>2. /\ 0 \in Nat /\ 0 <= slippage /\ assets + 0 <= idle + deployed
            /\ idle' + deployed' = (idle + deployed) - assets - 0
            /\ idle' \in Nat /\ deployed' \in Nat
        BY <1>1, <3>1
      <3> QED
        BY <3>2
    <2>2. CASE toRecall # 0
      <3>1. PICK lost \in Losses :
                /\ Recalled(toRecall, lost)
                /\ idle + Realized(toRecall, lost) >= assets
                /\ idle' = idle + Realized(toRecall, lost) - assets
        BY <2>2 DEF PayOut
      <3>2. /\ Realized(toRecall, lost) \in Nat /\ lost \in Nat /\ lost <= slippage
            /\ deployed' \in Nat /\ deployed = deployed' + lost + Realized(toRecall, lost)
        BY <1>1, <3>1, RecallMoves
      <3>3. PICK i \in Nat, d \in Nat, e \in Nat, r \in Nat :
                /\ i = idle /\ d = deployed /\ e = deployed' /\ r = Realized(toRecall, lost)
        BY <1>1, <3>2
      <3>4. d = e + lost + r /\ i + r >= assets /\ idle' = (i + r) - assets
        BY <3>1, <3>2, <3>3
      <3>5. /\ (i + r) - assets \in Nat
            /\ assets + lost <= i + d
            /\ ((i + r) - assets) + e = (i + d) - assets - lost
        BY <3>2, <3>4, PaymentAddsUp
      <3>6. /\ idle' \in Nat /\ assets + lost <= idle + deployed
            /\ idle' + deployed' = (idle + deployed) - assets - lost
        <4>1. idle' \in Nat
          BY <3>4, <3>5
        <4>2. idle' + deployed' = ((i + r) - assets) + e
          BY <3>3, <3>4
        <4> QED
          BY <3>5, <3>3, <4>1, <4>2
      <3>7. \E loss \in Nat : /\ loss <= slippage /\ assets + loss <= idle + deployed
                             /\ idle' + deployed' = (idle + deployed) - assets - loss
        BY <3>2, <3>6, Zenon
      <3> QED
        BY <3>2, <3>6, <3>7
    <2> QED
      BY <2>1, <2>2
  <1>4. VaultFits'
    BY <1>1, <1>2, <1>3 DEF VaultFits, VaultTypeOK
  <1>5. totalAssets = idle + deployed /\ totalAssets' = idle' + deployed'
    BY DEF totalAssets
  <1>6. PICK loss \in Nat : /\ loss <= slippage /\ assets + loss <= idle + deployed
                            /\ idle' + deployed' = (idle + deployed) - assets - loss
    BY <1>3
  <1>7. assets + loss <= totalAssets /\ totalAssets' = totalAssets - assets - loss
    BY <1>5, <1>6, Zenon
  <1> QED
    BY <1>4, <1>6, <1>7

(* At the start nobody has a share.                                           *)
LEMMA VaultStartsFit ==
    ASSUME VaultInit PROVE VaultFits
  <1>1. VaultTypeOK
    BY DEF VaultInit, VaultTypeOK
  <1>2. IsFiniteSet(Holders) /\ \A h \in Holders : balanceOf[h] = 0
    BY StrategyVaultAssumption DEF VaultInit
  <1>3. SumFunctionOnSet(balanceOf, Holders) = 0
    BY <1>2, SumZero
  <1> QED
    BY <1>1, <1>3 DEF VaultFits, SharesAddUp, VaultInit

(* A step that moves assets only leaves the books fit.                        *)
LEMMA AssetsMove ==
    ASSUME VaultFits, UNCHANGED shareVars, idle' \in Nat, deployed' \in Nat,
           slippage' = slippage, adapterOpen' \in BOOLEAN
    PROVE  VaultFits'
  BY DEF VaultFits, VaultTypeOK, SharesAddUp, shareVars

(* A purchase of shares leaves the books fit, and pays no less than they are  *)
(* worth.                                                                     *)
LEMMA PurchaseCosts ==
    ASSUME VaultFits, NEW h \in Holders, NEW n \in Nat, Deposit(h, n) \/ Mint(h, n)
    PROVE  /\ VaultFits'
           /\ \E assets \in Nat, shares \in Nat :
                 /\ MintShares(h, shares) /\ totalAssets' = totalAssets + assets
                 /\ shares * (totalAssets + 1) <= assets * (totalSupply + VirtualShares)
  <1>1. n \in Nat /\ VaultTypeOK
    BY DEF VaultFits
  <1>2. PICK assets \in Nat, shares \in Nat :
            /\ MintShares(h, shares) /\ idle' = idle + assets
            /\ shares * (totalAssets + 1) <= assets * (totalSupply + VirtualShares)
    <2>1. CASE Deposit(h, n)
      <3>1. PreviewDeposit(n) \in Nat /\ PreviewDeposit(n) * (totalAssets + 1) <= n * (totalSupply + VirtualShares)
        BY <1>1, Conversions DEF PreviewDeposit
      <3>2. MintShares(h, PreviewDeposit(n)) /\ idle' = idle + n
        BY <2>1 DEF Deposit
      <3> QED
        BY <1>1, <3>1, <3>2
    <2>2. CASE Mint(h, n)
      <3>1. AssetsUp(n) \in Nat /\ n * (totalAssets + 1) <= AssetsUp(n) * (totalSupply + VirtualShares)
        BY <1>1, Conversions
      <3>2. MintShares(h, n) /\ idle' = idle + AssetsUp(n)
        BY <2>2 DEF Mint
      <3> QED
        BY <1>1, <3>1, <3>2
    <2> QED
      BY <2>1, <2>2
  <1>3. deployed' = deployed /\ slippage' = slippage /\ adapterOpen' = adapterOpen
    BY DEF Deposit, Mint, adapterVars
  <1>4. balanceOf' \in [Holders -> Nat] /\ totalSupply' \in Nat /\ SharesAddUp'
    BY <1>2, SharesStayAddedUp
  <1>5. idle \in Nat /\ deployed \in Nat
    BY <1>1 DEF VaultTypeOK
  <1>6. idle' \in Nat /\ totalAssets' = totalAssets + assets
    BY <1>2, <1>3, <1>5 DEF totalAssets
  <1>7. VaultFits'
    BY <1>1, <1>3, <1>4, <1>6 DEF VaultFits, VaultTypeOK
  <1> QED
    BY <1>2, <1>6, <1>7

(* A sale of part of the supply is such a payment.                            *)
LEMMA SaleCosts ==
    ASSUME VaultFits, NEW h \in Holders,
           \E n \in Nat : Withdraw(h, n) \/ RedeemPart(h, n)
    PROVE  /\ VaultFits'
           /\ \E assets \in Nat, shares \in Nat, loss \in Nat :
                 /\ BurnShares(h, shares)
                 /\ loss <= slippage /\ assets + loss <= totalAssets
                 /\ totalAssets' = totalAssets - assets - loss
                 /\ assets * (totalSupply + VirtualShares) <= shares * (totalAssets + 1)
  <1>1. VaultTypeOK /\ idle \in Nat /\ deployed \in Nat
    BY DEF VaultFits, VaultTypeOK
  <1>2. PICK assets \in Nat, shares \in Nat :
            /\ PayOut(h, assets, shares, ToRecall(assets, shares))
            /\ assets * (totalSupply + VirtualShares) <= shares * (totalAssets + 1)
    <2>1. ASSUME NEW n \in Nat, Withdraw(h, n)
          PROVE  \E assets \in Nat, shares \in Nat :
                     /\ PayOut(h, assets, shares, ToRecall(assets, shares))
                     /\ assets * (totalSupply + VirtualShares) <= shares * (totalAssets + 1)
      <3>2. /\ PreviewWithdraw(n) \in Nat
            /\ n * (totalSupply + VirtualShares) <= PreviewWithdraw(n) * (totalAssets + 1)
        BY <1>1, Conversions DEF PreviewWithdraw
      <3>3. PayOut(h, n, PreviewWithdraw(n), ToRecall(n, PreviewWithdraw(n)))
        BY <2>1 DEF Withdraw
      <3> QED
        BY <3>2, <3>3
    <2>2. ASSUME NEW n \in Nat, RedeemPart(h, n)
          PROVE  \E assets \in Nat, shares \in Nat :
                     /\ PayOut(h, assets, shares, ToRecall(assets, shares))
                     /\ assets * (totalSupply + VirtualShares) <= shares * (totalAssets + 1)
      <3>2. /\ AssetsDown(n) \in Nat
            /\ AssetsDown(n) * (totalSupply + VirtualShares) <= n * (totalAssets + 1)
        BY <1>1, Conversions
      <3>3. PayOut(h, AssetsDown(n), n, ToRecall(AssetsDown(n), n))
        BY <2>2 DEF RedeemPart
      <3> QED
        BY <3>2, <3>3
    <2> QED
      BY <2>1, <2>2
  <1>3. ToRecall(assets, shares) \in Nat
    BY <1>1 DEF ToRecall
  <1>4. /\ VaultFits'
        /\ \E loss \in Nat : /\ loss <= slippage /\ assets + loss <= totalAssets
                             /\ totalAssets' = totalAssets - assets - loss
    BY <1>2, <1>3, PaymentCosts
  <1>5. BurnShares(h, shares)
    BY <1>2 DEF PayOut
  <1> QED
    BY <1>2, <1>4, <1>5

(* The executor's moves leave the books fit.                                  *)
LEMMA ExecutorMoves ==
    ASSUME VaultFits, NEW n \in Nat, AllocateToAdapter(n) \/ RecallFromAdapter(n)
    PROVE  VaultFits' /\ totalSupply' = totalSupply
  <1>0. idle \in Nat /\ deployed \in Nat /\ slippage \in Nat /\ adapterOpen \in BOOLEAN
    BY StrategyVaultAssumption DEF VaultFits, VaultTypeOK
  <1>1. ASSUME AllocateToAdapter(n) PROVE VaultFits' /\ totalSupply' = totalSupply
    <2>1. /\ n <= idle /\ idle' = idle - n
          /\ \E d \in 0 .. deployed + n : deployed' = d
      BY <1>1 DEF AllocateToAdapter
    <2>2. idle' \in Nat /\ deployed' \in Nat
      BY <1>0, <2>1
    <2> QED
      BY <1>0, <1>1, <2>2, AssetsMove DEF AllocateToAdapter, adapterVars, shareVars
  <1>2. ASSUME RecallFromAdapter(n) PROVE VaultFits' /\ totalSupply' = totalSupply
    <2>1. PICK lost \in Losses : Recalled(n, lost) /\ idle' = idle + Realized(n, lost)
      BY <1>2 DEF RecallFromAdapter
    <2>2. Realized(n, lost) \in Nat /\ deployed' \in Nat
      BY <1>0, <2>1, RecallMoves
    <2>3. idle' \in Nat /\ deployed' \in Nat
      BY <1>0, <2>1, <2>2
    <2> QED
      BY <1>0, <1>2, <2>3, AssetsMove DEF RecallFromAdapter, adapterVars, shareVars
  <1> QED
    BY <1>1, <1>2

(* A holder's call.                                                           *)
Call(h) ==
    \/ \E n \in Nat : Deposit(h, n) \/ Mint(h, n)
    \/ \E n \in Nat : Withdraw(h, n) \/ RedeemPart(h, n)
    \/ RedeemAll(h)

(* It leaves them fit.                                                        *)
LEMMA CallsFit ==
    ASSUME VaultFits, NEW h \in Holders, Call(h) PROVE VaultFits'
  <1>1. ASSUME RedeemAll(h) PROVE VaultFits'
    <2>1. totalSupply \in Nat /\ BurnShares(h, totalSupply)
      BY <1>1 DEF RedeemAll, VaultFits, VaultTypeOK
    <2>2. balanceOf' \in [Holders -> Nat] /\ totalSupply' \in Nat /\ SharesAddUp'
      BY <2>1, SharesStayAddedUp
    <2>3. idle' = 0 /\ deployed' = 0 /\ slippage' = slippage /\ adapterOpen' = adapterOpen
      BY <1>1 DEF RedeemAll, adapterVars
    <2> QED
      BY <2>2, <2>3 DEF VaultFits, VaultTypeOK
  <1> QED
    BY <1>1, PurchaseCosts, SaleCosts DEF Call

(* Every step of the vault is a holder's call, or moves no share; and the     *)
(* books stay fit.                                                            *)
LEMMA VaultStaysFit ==
    ASSUME VaultFits, [VaultNext]_vaultVars
    PROVE  VaultFits' /\ (totalSupply' # totalSupply => \E h \in Holders : Call(h))
  <1> DEFINE Goal == VaultFits' /\ (totalSupply' # totalSupply => \E h \in Holders : Call(h))
  <1>0. idle \in Nat /\ deployed \in Nat /\ adapterOpen \in BOOLEAN /\ Amounts \subseteq Nat
    BY StrategyVaultAssumption DEF VaultFits, VaultTypeOK
  <1>1. ASSUME NEW value \in Values, AdapterMoves(value) PROVE Goal
    BY <1>0, <1>1, AssetsMove, StrategyVaultAssumption DEF AdapterMoves, adapterVars, shareVars
  <1>2. ASSUME NEW open \in BOOLEAN, SetAdapterOpen(open) PROVE Goal
    BY <1>0, <1>2, AssetsMove DEF SetAdapterOpen, shareVars
  <1>3. ASSUME NEW n \in Amounts, AllocateToAdapter(n) \/ RecallFromAdapter(n) PROVE Goal
    BY <1>0, <1>3, ExecutorMoves
  <1>4. ASSUME NEW n \in Amounts, Donate(n) PROVE Goal
    <2>1. idle' = idle + n /\ deployed' = deployed /\ n \in Nat
      BY <1>0, <1>4 DEF Donate
    <2>2. idle' \in Nat /\ deployed' \in Nat
      BY <1>0, <2>1
    <2> QED
      BY <1>0, <1>4, <2>2, AssetsMove DEF Donate, adapterVars, shareVars
  <1>5. ASSUME NEW h \in Holders, Call(h) PROVE Goal
    BY <1>5, CallsFit
  <1>6. ASSUME NEW h \in Holders, NEW n \in Amounts, Deposit(h, n) \/ Mint(h, n) \/ Withdraw(h, n)
        PROVE  Goal
    <2>1. Call(h)
      BY <1>0, <1>6 DEF Call
    <2> QED
      BY <1>5, <2>1
  <1>7. ASSUME NEW h \in Holders, NEW n \in Amounts \cup {balanceOf[h]}, RedeemPart(h, n) PROVE Goal
    <2>1. n \in Nat
      BY <1>0, OthersHoldTheRest
    <2>2. Call(h)
      BY <1>7, <2>1 DEF Call
    <2> QED
      BY <1>5, <2>2
  <1>8. ASSUME NEW h \in Holders, RedeemAll(h) PROVE Goal
    <2>1. Call(h)
      BY <1>8 DEF Call
    <2> QED
      BY <1>5, <2>1
  <1>9. ASSUME UNCHANGED vaultVars PROVE Goal
    BY <1>0, <1>9, AssetsMove DEF vaultVars, adapterVars, shareVars
  <1>11. ASSUME NEW h \in Holders, WithdrawAssured(h) PROVE Goal
    <2>1. totalAssets > slippage /\ Withdraw(h, totalAssets - slippage)
      BY <1>11 DEF WithdrawAssured
    <2>2. slippage \in Nat /\ totalAssets \in Nat
      BY <1>0, StrategyVaultAssumption DEF VaultFits, VaultTypeOK, totalAssets
    <2>3. totalAssets - slippage \in Nat
      BY <2>1, <2>2
    <2>4. Call(h)
      BY <2>1, <2>3 DEF Call
    <2> QED
      BY <1>5, <2>4
  <1> HIDE DEF Goal
  <1>10. Goal
    BY <1>1, <1>2, <1>3, <1>4, <1>6, <1>7, <1>8, <1>9, <1>11
    DEF VaultNext, AdapterStep, HolderStep
  <1> QED
    BY <1>10 DEF Goal

------------------------------------------------------------------------------
(* What a holder's calls cost the others.                                     *)

(* A call of h costs no other holder more than the slippage.                  *)
OnlySlippageLost(h) ==
    \A g \in Holders \ {h} : AssetsDown(balanceOf[g])' + slippage >= AssetsDown(balanceOf[g])

(* What g's shares are worth before and after a step that leaves them his.    *)
LEMMA WorthOfOthers ==
    ASSUME VaultFits, VaultFits', NEW g \in Holders, balanceOf'[g] = balanceOf[g]
    PROVE  /\ balanceOf[g] \in Nat /\ slippage \in Nat
           /\ totalAssets + 1 \in Nat /\ totalSupply + VirtualShares \in Nat \ {0}
           /\ AssetsDown(balanceOf[g]) = (balanceOf[g] * (totalAssets + 1)) \div (totalSupply + VirtualShares)
           /\ AssetsDown(balanceOf[g])' = (balanceOf[g] * (totalAssets' + 1)) \div (totalSupply' + VirtualShares)
           /\ AssetsDown(balanceOf[g])' \in Nat
  <1>1. VaultTypeOK /\ VaultTypeOK' /\ balanceOf[g] \in Nat /\ slippage \in Nat
    BY StrategyVaultAssumption DEF VaultFits, VaultTypeOK
  <1>2. totalAssets + 1 \in Nat /\ totalSupply + VirtualShares \in Nat \ {0}
    BY <1>1, Conversions
  <1>3. AssetsDown(balanceOf[g]) = (balanceOf[g] * (totalAssets + 1)) \div (totalSupply + VirtualShares)
    BY DEF AssetsDown
  <1>4. AssetsDown(balanceOf[g])' = (balanceOf[g] * (totalAssets' + 1)) \div (totalSupply' + VirtualShares)
    BY DEF AssetsDown
  <1>5. totalAssets' + 1 \in Nat /\ totalSupply' + VirtualShares \in Nat \ {0}
    <2>1. idle' \in Nat /\ deployed' \in Nat /\ totalSupply' \in Nat
      BY <1>1 DEF VaultTypeOK
    <2>2. totalAssets' = idle' + deployed'
      BY DEF totalAssets
    <2>3. PICK i \in Nat, d \in Nat, t \in Nat : i = idle' /\ d = deployed' /\ t = totalSupply'
      BY <2>1
    <2>4. i + d + 1 \in Nat /\ t + VirtualShares \in Nat \ {0}
      BY StrategyVaultAssumption
    <2> QED
      BY <2>2, <2>3, <2>4, Zenon
  <1>6. (balanceOf[g] * (totalAssets' + 1)) \div (totalSupply' + VirtualShares) \in Nat
    <2>1. PICK x \in Nat : x = totalAssets' + 1
      BY <1>5
    <2>2. balanceOf[g] * x \in Nat
      BY <1>1, <2>1
    <2> QED
      BY <1>5, <2>1, <2>2, Quotient
  <1> QED
    BY <1>1, <1>2, <1>3, <1>4, <1>6

(* A purchase costs the others nothing.                                       *)
LEMMA PurchaseSparesOthers ==
    ASSUME VaultFits, NEW h \in Holders, NEW n \in Nat, Deposit(h, n) \/ Mint(h, n)
    PROVE  OnlySlippageLost(h)
  <1>1. VaultFits'
    BY PurchaseCosts
  <1>2. PICK assets \in Nat, shares \in Nat :
            /\ MintShares(h, shares) /\ totalAssets' = totalAssets + assets
            /\ shares * (totalAssets + 1) <= assets * (totalSupply + VirtualShares)
    BY PurchaseCosts
  <1>3. ASSUME NEW g \in Holders \ {h}
        PROVE  AssetsDown(balanceOf[g])' + slippage >= AssetsDown(balanceOf[g])
    <2>1. balanceOf'[g] = balanceOf[g]
      BY <1>2, SharesStayAddedUp
    <2>2. PICK x \in Nat, s \in Nat \ {0} : x = totalAssets + 1 /\ s = totalSupply + VirtualShares
      BY <1>1, <2>1, WorthOfOthers
    <2>3. totalAssets' + 1 = x + assets /\ totalSupply' + VirtualShares = s + shares
      <3>1. totalAssets \in Int /\ totalSupply \in Int /\ VirtualShares \in Int
        BY StrategyVaultAssumption DEF VaultFits, VaultTypeOK, totalAssets
      <3> QED
        BY <1>2, <2>2, <3>1 DEF MintShares
    <2>4. balanceOf[g] \in Nat /\ slippage \in Nat /\ AssetsDown(balanceOf[g])' \in Nat
      BY <1>1, <2>1, WorthOfOthers
    <2>5. (balanceOf[g] * x) \div s <= (balanceOf[g] * (x + assets)) \div (s + shares)
      BY <1>2, <2>2, <2>4, BuyingDilutesNobody
    <2>6. /\ AssetsDown(balanceOf[g]) = (balanceOf[g] * x) \div s
          /\ AssetsDown(balanceOf[g])' = (balanceOf[g] * (x + assets)) \div (s + shares)
      BY <1>1, <2>1, <2>2, <2>3, WorthOfOthers
    <2>7. AssetsDown(balanceOf[g]) <= AssetsDown(balanceOf[g])'
      BY <2>5, <2>6
    <2>8. AssetsDown(balanceOf[g]) \in Nat
      BY <2>4, Conversions DEF VaultFits
    <2> QED
      BY <2>4, <2>7, <2>8
  <1> QED
    BY <1>3 DEF OnlySlippageLost

(* A sale of part of the supply costs the others at most the slippage of its  *)
(* recall.                                                                    *)
LEMMA SaleSparesOthers ==
    ASSUME VaultFits, NEW h \in Holders,
           \E n \in Nat : Withdraw(h, n) \/ RedeemPart(h, n)
    PROVE  OnlySlippageLost(h)
  <1>1. VaultFits'
    BY SaleCosts
  <1>2. PICK assets \in Nat, shares \in Nat, loss \in Nat :
            /\ BurnShares(h, shares)
            /\ loss <= slippage /\ assets + loss <= totalAssets
            /\ totalAssets' = totalAssets - assets - loss
            /\ assets * (totalSupply + VirtualShares) <= shares * (totalAssets + 1)
    BY SaleCosts
  <1>3. ASSUME NEW g \in Holders \ {h}
        PROVE  AssetsDown(balanceOf[g])' + slippage >= AssetsDown(balanceOf[g])
    <2>1. balanceOf'[g] = balanceOf[g]
      BY <1>2, SharesStayAddedUp
    <2>2. PICK x \in Nat, s \in Nat \ {0} : x = totalAssets + 1 /\ s = totalSupply + VirtualShares
      BY <1>1, <2>1, WorthOfOthers
    <2>3. /\ totalAssets' + 1 = x - assets - loss /\ totalSupply' + VirtualShares = s - shares
          /\ assets + loss <= x
      <3>1. totalAssets \in Int /\ totalSupply \in Int /\ VirtualShares \in Int
        BY StrategyVaultAssumption DEF VaultFits, VaultTypeOK, totalAssets
      <3>2. totalSupply' = totalSupply - shares
        BY <1>2 DEF BurnShares
      <3>3. totalSupply' + VirtualShares = s - shares
        BY <2>2, <3>1, <3>2
      <3> QED
        BY <1>2, <2>2, <3>1, <3>3
    <2>4. balanceOf[g] \in Nat /\ slippage \in Nat /\ AssetsDown(balanceOf[g])' \in Nat
      BY <1>1, <2>1, WorthOfOthers
    <2>5. shares < s /\ balanceOf[g] <= s - shares
      <3>1. /\ balanceOf[h] \in Nat /\ balanceOf[h] <= totalSupply
            /\ balanceOf[g] <= totalSupply - balanceOf[h] /\ shares <= balanceOf[h]
        BY <1>2, OthersHoldTheRest DEF BurnShares, Burnable
      <3>2. totalSupply \in Nat /\ VirtualShares \in Nat \ {0}
        BY StrategyVaultAssumption DEF VaultFits, VaultTypeOK
      <3> QED
        BY <2>2, <2>4, <3>1, <3>2
    <2>6. (balanceOf[g] * x) \div s <= (balanceOf[g] * (x - assets - loss)) \div (s - shares) + slippage
      BY <1>2, <2>2, <2>3, <2>4, <2>5, PayingCostsTheLoss
    <2>7. /\ AssetsDown(balanceOf[g]) = (balanceOf[g] * x) \div s
          /\ AssetsDown(balanceOf[g])' = (balanceOf[g] * (x - assets - loss)) \div (s - shares)
      BY <1>1, <2>1, <2>2, <2>3, WorthOfOthers
    <2>8. AssetsDown(balanceOf[g]) <= AssetsDown(balanceOf[g])' + slippage
      BY <2>6, <2>7
    <2>9. AssetsDown(balanceOf[g]) \in Nat
      BY <2>4, Conversions DEF VaultFits
    <2> QED
      BY <2>4, <2>8, <2>9
  <1> QED
    BY <1>3 DEF OnlySlippageLost

(* Who redeems the whole supply leaves nobody else with a share.              *)
LEMMA LastSaleSparesOthers ==
    ASSUME VaultFits, VaultFits', NEW h \in Holders, RedeemAll(h)
    PROVE  OnlySlippageLost(h)
  <1>1. totalSupply \in Nat /\ BurnShares(h, totalSupply)
    BY DEF RedeemAll, VaultFits, VaultTypeOK
  <1>2. ASSUME NEW g \in Holders \ {h}
        PROVE  AssetsDown(balanceOf[g])' + slippage >= AssetsDown(balanceOf[g])
    <2>1. balanceOf'[g] = balanceOf[g]
      BY <1>1, SharesStayAddedUp
    <2>2. balanceOf[g] = 0
      <3>1. /\ balanceOf[h] \in Nat /\ balanceOf[h] <= totalSupply /\ balanceOf[g] \in Nat
            /\ balanceOf[g] <= totalSupply - balanceOf[h] /\ totalSupply <= balanceOf[h]
        BY <1>1, OthersHoldTheRest DEF BurnShares, Burnable
      <3> QED
        BY <1>1, <3>1
    <2>3. /\ totalAssets + 1 \in Nat /\ totalSupply + VirtualShares \in Nat \ {0}
          /\ AssetsDown(balanceOf[g]) = (balanceOf[g] * (totalAssets + 1)) \div (totalSupply + VirtualShares)
          /\ AssetsDown(balanceOf[g])' \in Nat /\ slippage \in Nat
      BY <2>1, WorthOfOthers
    <2>4. AssetsDown(balanceOf[g]) = 0
      <3>1. \A x \in Nat, n \in Nat \ {0} : (0 * x) \div n = 0
        OBVIOUS
      <3> QED
        BY <2>2, <2>3, <3>1
    <2> QED
      BY <2>3, <2>4
  <1> QED
    BY <1>2 DEF OnlySlippageLost

(* A call keeps OthersPayOnlySlippage's promise.                              *)
LEMMA CallSparesOthers ==
    ASSUME VaultFits, NEW h \in Holders, Call(h), totalSupply' # totalSupply,
           NEW g \in Holders, balanceOf'[g] = balanceOf[g]
    PROVE  AssetsDown(balanceOf[g])' + slippage >= AssetsDown(balanceOf[g])
  <1>1. VaultFits'
    BY CallsFit
  <1>2. OnlySlippageLost(h)
    BY <1>1, PurchaseSparesOthers, SaleSparesOthers, LastSaleSparesOthers DEF Call
  <1>3. balanceOf'[h] # balanceOf[h]
    <2>1. balanceOf \in [Holders -> Nat] /\ totalSupply \in Nat
      BY DEF VaultFits, VaultTypeOK
    <2>2. ASSUME NEW shares \in Nat, MintShares(h, shares) \/ BurnShares(h, shares)
          PROVE  balanceOf'[h] # balanceOf[h]
      BY <2>1, <2>2 DEF MintShares, BurnShares
    <2>3. \E shares \in Nat : MintShares(h, shares) \/ BurnShares(h, shares)
      <3>1. ASSUME \E n \in Nat : Deposit(h, n) \/ Mint(h, n)
            PROVE  \E shares \in Nat : MintShares(h, shares)
        BY <3>1, PurchaseCosts
      <3>2. ASSUME \E n \in Nat : Withdraw(h, n) \/ RedeemPart(h, n)
            PROVE  \E shares \in Nat : BurnShares(h, shares)
        BY <3>2, SaleCosts
      <3>3. RedeemAll(h) => BurnShares(h, totalSupply)
        BY DEF RedeemAll
      <3> QED
        BY <2>1, <3>1, <3>2, <3>3 DEF Call
    <2> QED
      BY <2>2, <2>3
  <1> QED
    BY <1>2, <1>3 DEF OnlySlippageLost

(* The last share leaves with everything.                                     *)
LEMMA LastShareCloses ==
    ASSUME VaultFits, NEW h \in Holders, Call(h), totalSupply # 0, totalSupply' = 0
    PROVE  deployed' = 0
  <1>1. totalSupply \in Nat /\ deployed \in Nat
    BY DEF VaultFits, VaultTypeOK
  <1>3. ASSUME NEW n \in Nat, Deposit(h, n) \/ Mint(h, n) PROVE FALSE
    <2>1. PICK shares \in Nat : MintShares(h, shares)
      BY <1>3, PurchaseCosts
    <2> QED
      BY <1>1, <2>1 DEF MintShares
  <1>4. ASSUME NEW n \in Nat, Withdraw(h, n) PROVE deployed' = 0
    <2> DEFINE shares == PreviewWithdraw(n)
    <2>1. PayOut(h, n, shares, ToRecall(n, shares))
      BY <1>4 DEF Withdraw
    <2>2. shares \in Nat
      BY Conversions DEF VaultFits, PreviewWithdraw
    <2> HIDE DEF shares
    <2>3. totalSupply' = totalSupply - shares
      BY <2>1 DEF PayOut, BurnShares
    <2>4. shares = totalSupply
      BY <1>1, <2>2, <2>3
    <2>5. ToRecall(n, shares) = deployed
      BY <2>4 DEF ToRecall
    <2>6. PayOut(h, n, shares, deployed)
      BY <2>1, <2>5
    <2>7. CASE deployed = 0
      BY <2>6, <2>7 DEF PayOut
    <2>8. CASE deployed # 0
      <3>1. PICK lost \in Losses : Recalled(deployed, lost)
        BY <2>6, <2>8 DEF PayOut
      <3>2. deployed' = deployed - lost - (deployed - lost) /\ lost \in Int
        BY <3>1 DEF Recalled, Realized, Losses
      <3> QED
        BY <1>1, <3>2
    <2> QED
      BY <2>7, <2>8
  <1>5. ASSUME NEW n \in Nat, RedeemPart(h, n) PROVE FALSE
    <2>1. n # totalSupply /\ totalSupply' = totalSupply - n
      BY <1>5 DEF RedeemPart, PayOut, BurnShares
    <2> QED
      BY <1>1, <2>1
  <1>6. RedeemAll(h) => deployed' = 0
    BY DEF RedeemAll
  <1> QED
    BY <1>3, <1>4, <1>5, <1>6 DEF Call

------------------------------------------------------------------------------
(* The vault, for any number of holders, any virtual shares, any slippage and *)
(* any market.                                                                *)

(* The vault's books fit: the supply is what its holders have.                *)
THEOREM VaultFitsAlways == VaultSpec => []VaultFits
  <1>1. VaultInit => VaultFits
    BY VaultStartsFit
  <1>2. VaultFits /\ [VaultNext]_vaultVars => VaultFits'
    BY VaultStaysFit
  <1> QED
    BY <1>1, <1>2, PTL DEF VaultSpec

(* No call of a holder costs another more than the slippage of its recall.    *)
THEOREM OthersSpared == VaultSpec => OthersPayOnlySlippage
  <1>1. VaultFits /\ [VaultNext]_vaultVars
        => [totalSupply' # totalSupply =>
              \A h \in Holders : balanceOf'[h] = balanceOf[h] =>
                AssetsDown(balanceOf[h])' + slippage >= AssetsDown(balanceOf[h])]_vaultVars
    BY VaultStaysFit, CallSparesOthers
  <1> QED
    BY <1>1, VaultFitsAlways, PTL DEF VaultSpec, OthersPayOnlySlippage

(* When the last share leaves, nothing stays behind in the adapter.           *)
THEOREM LastShareCloser == VaultSpec => LastShareClosesPosition
  <1>1. VaultFits /\ [VaultNext]_vaultVars
        => [totalSupply # 0 /\ totalSupply' = 0 => deployed' = 0]_vaultVars
    <2>1. SUFFICES ASSUME VaultFits, [VaultNext]_vaultVars, totalSupply # 0, totalSupply' = 0
          PROVE  deployed' = 0
      OBVIOUS
    <2>2. PICK h \in Holders : Call(h)
      BY <2>1, VaultStaysFit
    <2> QED
      BY <2>1, <2>2, LastShareCloses
  <1> QED
    BY <1>1, VaultFitsAlways, PTL DEF VaultSpec, LastShareClosesPosition

------------------------------------------------------------------------------
(* The allocations of the history add up.                                     *)

Solves(g, S) ==
    g = [s \in SUBSET S |-> IF s = {} THEN 0 ELSE history[Picked(s)].assets + g[s \ {Picked(s)}]]

(* What some entries moved is the sum of what each moved.                     *)
LEMMA MovedIsSum ==
    ASSUME NEW S, IsFiniteSet(S), NEW f, \A x \in S : f[x] = history[x].assets
    PROVE  MovedIn(S) = SumFunctionOnSet(f, S)
  <1> DEFINE M == CHOOSE g : Solves(g, S)
  <1>1. MovedIn(S) = M[S]
    BY Zenon DEF MovedIn, MapThenSumSet, MapThenFoldSet, Solves, Picked
  <1>2. ASSUME NEW g PROVE Solves(g, S) <=> SolvesSum(f, g, S)
    <2> DEFINE a == [s \in SUBSET S |-> IF s = {} THEN 0 ELSE history[Picked(s)].assets + g[s \ {Picked(s)}]]
               b == [s \in SUBSET S |-> SumStep(f, g, s)]
    <2>1. ASSUME NEW s \in SUBSET S PROVE a[s] = b[s]
      <3>1. CASE s = {}
        BY <3>1 DEF SumStep
      <3>2. CASE s # {}
        <4>1. Picked(s) \in S
          BY <3>2, PickMember
        <4> QED
          BY <3>2, <4>1 DEF SumStep
      <3> QED
        BY <3>1, <3>2
    <2>2. a = b
      BY <2>1
    <2> QED
      BY <2>2, Zenon DEF Solves, SolvesSum
  <1>3. SolvesSum(f, SumSolution(f, S), S)
    BY SolutionExists
  <1>4. SolvesSum(f, M, S)
    BY <1>2, <1>3, Zenon
  <1> HIDE DEF M
  <1>5. M[S] = SumSolution(f, S)[S]
    BY <1>3, <1>4, SolutionsAgree
  <1> QED
    BY <1>1, <1>5, SumIsSolution

------------------------------------------------------------------------------
(* The daily limit.  A policy day starts with an allocation; start[j] is the  *)
(* day entry j of the history h was spent in, d the policy's day and spent    *)
(* what it counts.  Policy days are at least a day apart, entries are in      *)
(* order, and what a policy day had moved by an entry is within its budget.   *)

Entries == [at : Nat, assets : Nat, budget : Nat, keeper : Callers]

AssetsOf(h) == [j \in DOMAIN h |-> h[j].assets]

UpTo(start, i) == {j \in 1 .. i : start[j] = start[i]}

OnDay(h, start, d) == {j \in DOMAIN h : start[j] = d}

Days(h, start, d, t) ==
    \A j \in DOMAIN h :
        /\ start[j] \in Nat /\ start[j] <= h[j].at /\ h[j].at < start[j] + Day /\ h[j].at <= t
        /\ start[j] = d \/ start[j] + Day <= d

InOrder(h, start) ==
    \A i, j \in DOMAIN h :
        i <= j => /\ h[i].at <= h[j].at
                  /\ start[i] = start[j] \/ start[i] + Day <= start[j]

WithinBudgets(h, start) ==
    \A i \in DOMAIN h : SumFunctionOnSet(AssetsOf(h), UpTo(start, i)) <= h[i].budget

DayBook(h, start, d, spent, t) ==
    /\ Days(h, start, d, t)
    /\ InOrder(h, start)
    /\ WithinBudgets(h, start)
    /\ spent = SumFunctionOnSet(AssetsOf(h), OnDay(h, start, d))

(* What the sums over a history need.                                         *)
LEMMA HistorySums ==
    ASSUME NEW h \in Seq(Entries)
    PROVE  /\ Len(h) \in Nat /\ DOMAIN h = 1 .. Len(h) /\ IsFiniteSet(DOMAIN h)
           /\ \A j \in DOMAIN h : /\ j \in Nat /\ h[j] \in Entries /\ h[j].at \in Nat
                                  /\ h[j].assets \in Nat /\ h[j].budget \in Nat
                                  /\ AssetsOf(h)[j] = h[j].assets
           /\ \A S \in SUBSET DOMAIN h :
                 IsFiniteSet(S) /\ SumFunctionOnSet(AssetsOf(h), S) \in Nat
  <1>1. Len(h) \in Nat /\ DOMAIN h = 1 .. Len(h)
    OBVIOUS
  <1>2. IsFiniteSet(DOMAIN h)
    BY <1>1, FS_Interval
  <1>3. \A j \in DOMAIN h : h[j] \in Entries
    OBVIOUS
  <1>4. \A j \in DOMAIN h : /\ j \in Nat /\ h[j].at \in Nat /\ h[j].assets \in Nat /\ h[j].budget \in Nat
                            /\ AssetsOf(h)[j] = h[j].assets
    BY <1>1, <1>3 DEF Entries, AssetsOf
  <1>5. ASSUME NEW S \in SUBSET DOMAIN h
        PROVE  IsFiniteSet(S) /\ SumFunctionOnSet(AssetsOf(h), S) \in Nat
    <2>1. IsFiniteSet(S)
      BY <1>2, FS_Subset, Zenon
    <2>2. \A j \in S : AssetsOf(h)[j] \in Nat
      BY <1>4
    <2> QED
      BY <2>1, <2>2, SumNat
  <1> QED
    BY <1>1, <1>2, <1>3, <1>4, <1>5

(* Two numbers are together at most twice the larger bound.                   *)
LEMMA TwiceTheLarger ==
    ASSUME NEW e \in Nat, NEW l \in Nat, NEW b \in Nat, NEW c \in Nat, l <= b, e <= c
    PROVE  e + l <= 2 * b \/ e + l <= 2 * c
  <1>1. CASE c <= b
    BY <1>1
  <1>2. CASE b <= c
    BY <1>2
  <1> QED
    BY <1>1, <1>2

(* Days that start two days apart share no day before an entry.               *)
LEMMA TwoDaysApart ==
    ASSUME NEW x \in Nat, NEW y \in Nat, NEW p \in Nat, NEW q \in Nat, NEW r \in Nat, NEW n \in Nat,
           q + n <= r, p + n <= q, x < p + n, r <= y, x > y - n
    PROVE  FALSE
  OBVIOUS

(* A day before an entry sees two policy days at most, and moves no more than *)
(* twice the larger of their budgets.                                         *)
LEMMA TwoBudgets ==
    ASSUME NEW h \in Seq(Entries), NEW start, NEW d \in Nat, NEW spent, NEW t \in Nat,
           DayBook(h, start, d, spent, t), Day \in Nat \ {0}, NEW i \in DOMAIN h,
           NEW day, day = {j \in 1 .. i : h[j].at > h[i].at - Day}
    PROVE  \E k \in day : SumFunctionOnSet(AssetsOf(h), day) <= 2 * h[k].budget
  <1> DEFINE Sum(S) == SumFunctionOnSet(AssetsOf(h), S)
             T == UpTo(start, i)
             early == {j \in day : start[j] # start[i]}
             late == {j \in day : start[j] = start[i]}
  <1>1. /\ Len(h) \in Nat /\ DOMAIN h = 1 .. Len(h) /\ IsFiniteSet(DOMAIN h)
        /\ \A j \in DOMAIN h : j \in Nat /\ h[j].at \in Nat /\ h[j].budget \in Nat /\ AssetsOf(h)[j] \in Nat
        /\ \A S \in SUBSET DOMAIN h : IsFiniteSet(S) /\ Sum(S) \in Nat
    BY HistorySums
  <1>2. /\ \A j \in DOMAIN h : start[j] \in Nat /\ start[j] <= h[j].at /\ h[j].at < start[j] + Day
        /\ \A j, k \in DOMAIN h :
              j <= k => /\ h[j].at <= h[k].at
                        /\ start[j] = start[k] \/ start[j] + Day <= start[k]
        /\ \A j \in DOMAIN h : Sum(UpTo(start, j)) <= h[j].budget
    BY DEF DayBook, Days, InOrder, WithinBudgets
  <1>3. i \in Nat /\ i >= 1 /\ i <= Len(h) /\ \A j \in 1 .. i : j \in DOMAIN h /\ j \in Nat /\ j <= i
    BY <1>1
  <1>4. /\ day \subseteq DOMAIN h /\ early \subseteq day /\ late \subseteq day
        /\ early \cap late = {} /\ early \cup late = day
        /\ T \subseteq DOMAIN h /\ late \subseteq T
    BY <1>3 DEF UpTo
  <1>5. i \in day
    BY <1>1, <1>3
  <1>6. Sum(day) = Sum(early) + Sum(late)
    <2>1. early \in SUBSET DOMAIN h /\ late \in SUBSET DOMAIN h
      BY <1>4
    <2>2. IsFiniteSet(early) /\ IsFiniteSet(late) /\ \A x \in early \cup late : AssetsOf(h)[x] \in Int
      BY <1>1, <1>4, <2>1
    <2> HIDE DEF early, late
    <2>3. Sum(early \cup late) = Sum(early) + Sum(late)
      BY <1>4, <2>2, SumUnion
    <2> QED
      BY <1>4, <2>3
  <1>7. Sum(late) <= h[i].budget
    <2>1. IsFiniteSet(T) /\ \A x \in T : AssetsOf(h)[x] \in Nat
      BY <1>1, <1>4
    <2> HIDE DEF T, late
    <2>2. Sum(late) <= Sum(T)
      BY <1>4, <2>1, SumPart
    <2>3. Sum(T) <= h[i].budget
      BY <1>2 DEF T
    <2>4. Sum(late) \in Nat /\ Sum(T) \in Nat
      BY <1>1, <1>4
    <2> HIDE DEF Sum
    <2> QED
      BY <1>1, <2>2, <2>3, <2>4
  <1>8. CASE early = {}
    <2>1. Sum(day) = Sum(late)
      BY <1>4, <1>8
    <2>2. Sum(late) \in Nat /\ h[i].budget \in Nat
      BY <1>1, <1>4
    <2> HIDE DEF Sum
    <2>3. Sum(day) <= 2 * h[i].budget
      BY <1>7, <2>1, <2>2
    <2> QED
      BY <1>5, <2>3 DEF Sum
  <1>9. CASE early # {}
    <2>1. PICK m \in early : \A j \in early : j <= m
      <3>1. early \subseteq 1 .. i
        OBVIOUS
      <3> HIDE DEF early
      <3> QED
        BY <1>3, <1>9, <3>1, GreatestMember
    <2>2. /\ m \in day /\ m \in DOMAIN h /\ m \in Nat /\ start[m] # start[i] /\ m <= i
      BY <1>3
    <2>3. start[m] + Day <= start[i]
      BY <1>2, <2>2
    <2>4. ASSUME NEW j \in early PROVE j \in UpTo(start, m)
      <3>1. j \in DOMAIN h /\ j \in Nat /\ j >= 1 /\ j <= m /\ h[j].at > h[i].at - Day
        BY <1>3, <2>1
      <3>2. start[j] = start[m] \/ start[j] + Day <= start[m]
        BY <1>2, <2>2, <3>1
      <3>3. ASSUME start[j] + Day <= start[m] PROVE FALSE
        <4>1. /\ h[j].at < start[j] + Day /\ start[i] <= h[i].at
              /\ start[j] \in Nat /\ start[m] \in Nat /\ start[i] \in Nat
              /\ h[j].at \in Nat /\ h[i].at \in Nat
          BY <1>1, <1>2, <2>2, <3>1
        <4>2. h[j].at > h[i].at - Day /\ Day \in Nat
          BY <3>1
        <4> QED
          BY ONLY <2>3, <3>3, <4>1, <4>2, TwoDaysApart
      <3> QED
        BY <2>2, <3>1, <3>2, <3>3 DEF UpTo
    <2>5. Sum(early) <= h[m].budget
      <3>1. /\ UpTo(start, m) \subseteq DOMAIN h /\ early \subseteq UpTo(start, m)
        BY <1>1, <2>2, <2>4 DEF UpTo
      <3>2. IsFiniteSet(UpTo(start, m)) /\ \A x \in UpTo(start, m) : AssetsOf(h)[x] \in Nat
        BY <1>1, <3>1
      <3> HIDE DEF early
      <3>3. Sum(early) <= Sum(UpTo(start, m))
        BY <3>1, <3>2, SumPart
      <3>4. Sum(UpTo(start, m)) <= h[m].budget
        BY <1>2, <2>2
      <3>5. Sum(early) \in Nat /\ Sum(UpTo(start, m)) \in Nat /\ h[m].budget \in Nat
        BY <1>1, <1>4, <2>2, <3>1
      <3> HIDE DEF Sum
      <3> QED
        BY <3>3, <3>4, <3>5
    <2>6. Sum(early) \in Nat /\ Sum(late) \in Nat /\ h[i].budget \in Nat /\ h[m].budget \in Nat
      BY <1>1, <1>4, <2>2
    <2> HIDE DEF Sum, early, late
    <2>7. Sum(day) <= 2 * h[i].budget \/ Sum(day) <= 2 * h[m].budget
      <3>1. Sum(early) + Sum(late) <= 2 * h[i].budget \/ Sum(early) + Sum(late) <= 2 * h[m].budget
        BY ONLY <1>7, <2>5, <2>6, TwiceTheLarger
      <3> QED
        BY <1>6, <3>1, Zenon
    <2> QED
      BY <1>5, <2>2, <2>7 DEF Sum
  <1> QED
    BY <1>8, <1>9

(* An allocation is entered: under a day of its own when the last one is      *)
(* over, and otherwise under that.                                            *)
LEMMA DayBookGrows ==
    ASSUME NEW h \in Seq(Entries), NEW start, NEW d \in Nat, NEW spent \in Nat, NEW t \in Nat,
           DayBook(h, start, d, spent, t), Day \in Nat \ {0}, d <= t,
           NEW e \in Entries, e.at = t,
           NEW d2 \in Nat, NEW before \in Nat,
           \/ t >= d + Day /\ d2 = t /\ before = 0
           \/ ~(t >= d + Day) /\ d2 = d /\ before = spent,
           before + e.assets <= e.budget
    PROVE  \E more : DayBook(Append(h, e), more, d2, before + e.assets, t)
  <1> DEFINE g == Append(h, e)
             n == Len(h) + 1
             more == [j \in DOMAIN g |-> IF j = n THEN d2 ELSE start[j]]
  <1>1. /\ Len(h) \in Nat /\ DOMAIN h = 1 .. Len(h) /\ IsFiniteSet(DOMAIN h)
        /\ \A j \in DOMAIN h : /\ j \in Nat /\ h[j].at \in Nat /\ h[j].assets \in Nat
                               /\ h[j].budget \in Nat /\ AssetsOf(h)[j] = h[j].assets
        /\ \A S \in SUBSET DOMAIN h :
              IsFiniteSet(S) /\ SumFunctionOnSet(AssetsOf(h), S) \in Nat
    BY HistorySums
  <1>2. g \in Seq(Entries) /\ DOMAIN g = 1 .. n /\ n \in Nat /\ n \notin DOMAIN h
    BY <1>1
  <1>3. /\ \A j \in DOMAIN h : j \in DOMAIN g /\ j # n /\ j < n /\ g[j] = h[j] /\ more[j] = start[j]
        /\ g[n] = e /\ n \in DOMAIN g /\ more[n] = d2
        /\ \A j \in DOMAIN g : j \in DOMAIN h \/ j = n
    BY <1>1
  <1>4. e.at \in Nat /\ e.assets \in Nat /\ e.budget \in Nat
    BY DEF Entries
  <1>5. /\ \A j \in DOMAIN h : /\ start[j] \in Nat /\ start[j] <= h[j].at
                               /\ h[j].at < start[j] + Day /\ h[j].at <= t
                               /\ start[j] = d \/ start[j] + Day <= d
        /\ InOrder(h, start) /\ WithinBudgets(h, start)
        /\ spent = SumFunctionOnSet(AssetsOf(h), OnDay(h, start, d))
    BY DEF DayBook, Days
  <1>6. d2 <= t /\ t < d2 + Day /\ (d2 = d \/ d + Day <= d2)
    OBVIOUS
  <1>7. \A j \in DOMAIN h : start[j] = d2 \/ start[j] + Day <= d2
    BY <1>5
  <1> HIDE DEF g, n, more
  <1>8. Days(g, more, d2, t)
    <2>1. ASSUME NEW j \in DOMAIN h
          PROVE  /\ more[j] \in Nat /\ more[j] <= g[j].at /\ g[j].at < more[j] + Day /\ g[j].at <= t
                 /\ more[j] = d2 \/ more[j] + Day <= d2
      BY <1>3, <1>5, <1>7
    <2>2. /\ more[n] \in Nat /\ more[n] <= g[n].at /\ g[n].at < more[n] + Day /\ g[n].at <= t
          /\ more[n] = d2 \/ more[n] + Day <= d2
      BY <1>3, <1>6
    <2> QED
      BY <1>3, <2>1, <2>2 DEF Days
  <1>9. InOrder(g, more)
    <2>1. ASSUME NEW i \in DOMAIN g, NEW j \in DOMAIN g, i <= j
          PROVE  g[i].at <= g[j].at /\ (more[i] = more[j] \/ more[i] + Day <= more[j])
      <3>1. CASE i \in DOMAIN h /\ j \in DOMAIN h
        BY <1>3, <1>5, <2>1, <3>1 DEF InOrder
      <3>2. CASE i \in DOMAIN h /\ j = n
        BY <1>3, <1>5, <1>7, <3>2
      <3>3. CASE i = n /\ j \in DOMAIN h
        BY <1>1, <1>2, <1>3, <2>1, <3>3
      <3>4. CASE i = n /\ j = n
        BY <1>3, <1>4, <3>4
      <3> QED
        BY <1>3, <3>1, <3>2, <3>3, <3>4
    <2> QED
      BY <2>1 DEF InOrder
  <1>10. \A S \in SUBSET DOMAIN h :
            SumFunctionOnSet(AssetsOf(g), S) = SumFunctionOnSet(AssetsOf(h), S)
    <2>1. ASSUME NEW S \in SUBSET DOMAIN h
          PROVE  SumFunctionOnSet(AssetsOf(g), S) = SumFunctionOnSet(AssetsOf(h), S)
      <3>1. \A x \in S : AssetsOf(g)[x] = AssetsOf(h)[x]
        BY <1>1, <1>3 DEF AssetsOf
      <3>2. IsFiniteSet(S)
        BY <1>1
      <3> QED
        BY <3>1, <3>2, SumSame
    <2> QED
      BY <2>1
  <1>11. /\ OnDay(h, start, d2) \subseteq DOMAIN h
         /\ SumFunctionOnSet(AssetsOf(h), OnDay(h, start, d2)) = before
    <2>1. OnDay(h, start, d2) \subseteq DOMAIN h
      BY DEF OnDay
    <2>2. CASE t >= d + Day
      <3>1. OnDay(h, start, d2) = {}
        BY <1>5, <2>2 DEF OnDay
      <3> QED
        BY <2>1, <2>2, <3>1, SumEmpty
    <2>3. CASE ~(t >= d + Day)
      BY <1>5, <2>1, <2>3
    <2> QED
      BY <2>2, <2>3
  <1>12. /\ OnDay(g, more, d2) = OnDay(h, start, d2) \cup {n}
         /\ SumFunctionOnSet(AssetsOf(g), OnDay(g, more, d2)) = before + e.assets
    <2> DEFINE S == OnDay(h, start, d2)
    <2>1. OnDay(g, more, d2) = S \cup {n}
      BY <1>3 DEF OnDay
    <2>2. IsFiniteSet(S) /\ n \notin S /\ S \in SUBSET DOMAIN h
      BY <1>1, <1>2, <1>11
    <2>3. AssetsOf(g)[n] = e.assets /\ \A x \in S \cup {n} : AssetsOf(g)[x] \in Int
      BY <1>1, <1>3, <1>4, <2>2 DEF AssetsOf
    <2>4. SumFunctionOnSet(AssetsOf(g), S) = before
      BY <1>10, <1>11, <2>2
    <2> HIDE DEF S
    <2>5. SumFunctionOnSet(AssetsOf(g), S \cup {n}) = AssetsOf(g)[n] + SumFunctionOnSet(AssetsOf(g), S)
      BY <2>2, <2>3, SumAdd
    <2>6. SumFunctionOnSet(AssetsOf(g), S \cup {n}) = e.assets + before
      BY <2>3, <2>4, <2>5
    <2>7. e.assets + before = before + e.assets
      BY <1>4
    <2> QED
      BY <2>1, <2>6, <2>7 DEF S
  <1>13. WithinBudgets(g, more)
    <2>1. ASSUME NEW i \in DOMAIN h
          PROVE  SumFunctionOnSet(AssetsOf(g), UpTo(more, i)) <= g[i].budget
      <3>1. \A j \in 1 .. i : j \in DOMAIN h
        BY <1>1
      <3>2. UpTo(more, i) = UpTo(start, i) /\ UpTo(start, i) \in SUBSET DOMAIN h
        BY <1>3, <3>1 DEF UpTo
      <3>3. SumFunctionOnSet(AssetsOf(g), UpTo(more, i)) = SumFunctionOnSet(AssetsOf(h), UpTo(start, i))
        BY <1>10, <3>2
      <3>4. SumFunctionOnSet(AssetsOf(h), UpTo(start, i)) <= h[i].budget
        BY <1>5 DEF WithinBudgets
      <3> QED
        BY <1>3, <3>3, <3>4
    <2>2. SumFunctionOnSet(AssetsOf(g), UpTo(more, n)) <= g[n].budget
      <3>1. UpTo(more, n) = OnDay(g, more, d2)
        BY <1>2, <1>3 DEF UpTo, OnDay
      <3> QED
        BY <1>3, <1>12, <3>1
    <2> QED
      BY <1>3, <2>1, <2>2 DEF WithinBudgets
  <1>14. DayBook(g, more, d2, before + e.assets, t)
    BY <1>8, <1>9, <1>12, <1>13 DEF DayBook
  <1> QED
    BY <1>14 DEF g

(* Time passes, and the book stays.                                           *)
LEMMA DayBookLater ==
    ASSUME NEW h \in Seq(Entries), NEW start, NEW d, NEW spent, NEW t \in Nat, NEW t2 \in Nat, t <= t2,
           DayBook(h, start, d, spent, t)
    PROVE  DayBook(h, start, d, spent, t2)
  <1>1. \A j \in DOMAIN h : h[j].at \in Nat
    BY HistorySums
  <1> QED
    BY <1>1 DEF DayBook, Days

(* At the start nothing is entered.                                           *)
LEMMA DayBookEmpty ==
    ASSUME NEW start, NEW d, NEW t
    PROVE  DayBook(<<>>, start, d, 0, t)
  <1>1. DOMAIN <<>> = {}
    OBVIOUS
  <1>2. OnDay(<<>>, start, d) = {}
    BY <1>1 DEF OnDay
  <1>3. SumFunctionOnSet(AssetsOf(<<>>), OnDay(<<>>, start, d)) = 0
    BY <1>2, SumEmpty
  <1> QED
    BY <1>1, <1>3 DEF DayBook, Days, InOrder, WithinBudgets

------------------------------------------------------------------------------
(* The leash.  The policy's books: its day, and the history behind it.        *)

PolicyFits ==
    /\ now \in Nat /\ dayStartedAt \in Nat /\ dayStartedAt <= now /\ spentToday \in Nat
    /\ history \in Seq(Entries)
    /\ \E start : DayBook(history, start, dayStartedAt, spentToday, now)

(* A share of more is more, and a share is no more than the whole.            *)
LEMMA Shares ==
    ASSUME NEW a \in Nat, NEW b \in Nat, a <= b, NEW bps \in 1 .. BPS
    PROVE  Share(a, bps) \in Nat /\ Share(a, bps) <= Share(b, bps) /\ Share(a, bps) <= a
  <1>1. BPS \in Nat \ {0} /\ bps \in Nat /\ bps <= BPS
    BY DEF BPS
  <1> DEFINE p == a * bps
             q == b * bps
  <1>2. p \in Nat /\ q \in Nat
    BY <1>1
  <1>3. p <= q
    <2>1. bps * a <= bps * b /\ bps * a = p /\ bps * b = q
      BY <1>1, Products
    <2> QED
      BY <2>1
  <1>4. p <= BPS * a
    <2>1. a * bps <= a * BPS /\ a * BPS = BPS * a
      BY <1>1, Products
    <2> QED
      BY <2>1
  <1>5. Share(a, bps) = p \div BPS /\ Share(b, bps) = q \div BPS
    BY DEF Share
  <1> HIDE DEF p, q
  <1>6. /\ p \div BPS \in Nat /\ BPS * (p \div BPS) <= p
        /\ q \div BPS \in Nat /\ q < BPS * ((q \div BPS) + 1)
    BY <1>1, <1>2, Quotient
  <1> DEFINE r == p \div BPS
             s == q \div BPS
  <1>7. r <= s
    <2>1. r \in Nat /\ s \in Nat /\ BPS * r <= p /\ q < BPS * (s + 1)
      BY <1>6
    <2> HIDE DEF r, s
    <2>2. SUFFICES ASSUME s + 1 <= r PROVE FALSE
      BY <2>1
    <2>3. BPS * (s + 1) <= BPS * r
      BY <1>1, <2>1, <2>2, Products
    <2>4. BPS * (s + 1) \in Nat /\ BPS * r \in Nat
      BY <1>1, <2>1
    <2> QED
      BY <1>2, <1>3, <2>1, <2>3, <2>4
  <1>8. r <= a
    <2>1. r \in Nat /\ BPS * r <= p
      BY <1>6
    <2> HIDE DEF r
    <2>2. BPS * r \in Nat /\ BPS * a \in Nat
      BY <1>1, <2>1
    <2>3. BPS * r <= BPS * a
      BY <1>2, <1>4, <2>1, <2>2
    <2> QED
      BY <1>1, <2>1, <2>3, Products
  <1> QED
    BY <1>5, <1>6, <1>7, <1>8

(* An allocation is entered in the books, by who may, under a live policy and *)
(* within its share.                                                          *)
LEMMA AllocationIsEntered ==
    ASSUME PolicyFits, NEW caller \in Callers, NEW assets \in Nat, NEW total \in Nat, NEW already \in Nat,
           RecordAllocation(caller, assets, total, already)
    PROVE  /\ PolicyFits'
           /\ ~paused /\ now < expiresAt
           /\ history' # <<>> /\ history'[Len(history')].keeper \in keepers \union {creator}
           /\ already + assets <= Share(total, maxAllocationBps)
  <1>1. /\ now \in Nat /\ dayStartedAt \in Nat /\ dayStartedAt <= now /\ spentToday \in Nat
        /\ history \in Seq(Entries) /\ Day \in Nat \ {0}
    BY PolicyExecutorAssumption DEF PolicyFits
  <1>2. PICK start : DayBook(history, start, dayStartedAt, spentToday, now)
    BY DEF PolicyFits
  <1> DEFINE budget == Share(total, maxDailyBps)
             e == [at |-> now, assets |-> assets, budget |-> budget, keeper |-> caller]
             d2 == IF DayOver THEN now ELSE dayStartedAt
  <1>3. /\ MayAllocate(caller) /\ Live /\ now' = now /\ history' = Append(history, e)
        /\ dayStartedAt' = d2 /\ spentToday' = SpentSoFar + assets
        /\ SpentSoFar + assets <= budget /\ already + assets <= Share(total, maxAllocationBps)
    BY DEF RecordAllocation, WithinLimits
  <1>4. budget \in Nat
    BY PolicyExecutorAssumption, Shares
  <1>5. e \in Entries /\ e.at = now /\ e.assets = assets /\ e.budget = budget /\ e.keeper = caller
    BY <1>1, <1>4 DEF Entries
  <1>6. /\ d2 \in Nat /\ d2 <= now /\ SpentSoFar \in Nat
        /\ \/ now >= dayStartedAt + Day /\ d2 = now /\ SpentSoFar = 0
           \/ ~(now >= dayStartedAt + Day) /\ d2 = dayStartedAt /\ SpentSoFar = spentToday
    BY <1>1 DEF DayOver, SpentSoFar
  <1> HIDE DEF e, d2, budget
  <1>7. \E more : DayBook(Append(history, e), more, d2, SpentSoFar + assets, now)
    <2>1. SpentSoFar + e.assets <= e.budget
      BY <1>3, <1>5
    <2>2. \E more : DayBook(Append(history, e), more, d2, SpentSoFar + e.assets, now)
      BY <1>1, <1>2, <1>5, <1>6, <2>1, DayBookGrows
    <2> QED
      BY <1>5, <2>2
  <1>8. /\ history' \in Seq(Entries) /\ history' # <<>> /\ history'[Len(history')] = e
    BY <1>1, <1>3, <1>5
  <1>9. PolicyFits'
    <2>1. now' \in Nat /\ dayStartedAt' \in Nat /\ dayStartedAt' <= now' /\ spentToday' \in Nat
      BY <1>1, <1>3, <1>6
    <2>2. \E more : DayBook(history', more, dayStartedAt', spentToday', now')
      BY <1>3, <1>7
    <2> QED
      BY <1>8, <2>1, <2>2 DEF PolicyFits
  <1> QED
    BY <1>3, <1>5, <1>8, <1>9 DEF MayAllocate, Live

(* Two budgets a day, of the policy's own history.                            *)
LEMMA FitsMoveTwoBudgets ==
    ASSUME PolicyFits PROVE AnyDayMovesTwoBudgets
  <1>1. /\ now \in Nat /\ dayStartedAt \in Nat /\ history \in Seq(Entries) /\ Day \in Nat \ {0}
    BY PolicyExecutorAssumption DEF PolicyFits
  <1>2. PICK start : DayBook(history, start, dayStartedAt, spentToday, now)
    BY DEF PolicyFits
  <1>3. ASSUME NEW i \in DOMAIN history,
               NEW day, day = {j \in 1 .. i : history[j].at > history[i].at - Day}
        PROVE  \E k \in day : MovedIn(day) <= 2 * history[k].budget
    <2>1. \E k \in day : SumFunctionOnSet(AssetsOf(history), day) <= 2 * history[k].budget
      BY <1>1, <1>2, <1>3, TwoBudgets
    <2>2. IsFiniteSet(day) /\ \A x \in day : AssetsOf(history)[x] = history[x].assets
      <3>1. /\ DOMAIN history = 1 .. Len(history) /\ Len(history) \in Nat
            /\ \A j \in DOMAIN history : AssetsOf(history)[j] = history[j].assets
            /\ \A S \in SUBSET DOMAIN history : IsFiniteSet(S)
        BY <1>1, HistorySums
      <3>2. day \subseteq DOMAIN history
        BY <1>3, <3>1
      <3> QED
        BY <3>1, <3>2
    <2>3. MovedIn(day) = SumFunctionOnSet(AssetsOf(history), day)
      BY <2>2, MovedIsSum
    <2> QED
      BY <2>1, <2>3
  <1> QED
    BY <1>3 DEF AnyDayMovesTwoBudgets

(* While nothing is allocated the policy's books wait.                        *)
LEMMA PolicyWaits ==
    ASSUME PolicyFits, UNCHANGED <<dayStartedAt, spentToday, history>>, now' \in Nat, now <= now'
    PROVE  PolicyFits'
  <1>1. /\ now \in Nat /\ dayStartedAt \in Nat /\ dayStartedAt <= now /\ spentToday \in Nat
        /\ history \in Seq(Entries)
    BY DEF PolicyFits
  <1>2. PICK start : DayBook(history, start, dayStartedAt, spentToday, now)
    BY DEF PolicyFits
  <1>3. PICK t \in Nat : t = now'
    OBVIOUS
  <1>4. now <= t /\ dayStartedAt <= t
    <2>1. now <= t
      BY <1>3
    <2> QED
      BY <1>1, <2>1
  <1>5. DayBook(history, start, dayStartedAt, spentToday, t)
    BY <1>1, <1>2, <1>4, DayBookLater
  <1>6. DayBook(history', start, dayStartedAt', spentToday', now')
    BY <1>3, <1>5
  <1>7. /\ now' \in Nat /\ dayStartedAt' \in Nat /\ dayStartedAt' <= now' /\ spentToday' \in Nat
        /\ history' \in Seq(Entries)
    BY <1>1, <1>3, <1>4
  <1> QED
    BY <1>6, <1>7 DEF PolicyFits

(* A step that allocates nothing keeps the leash.                             *)
LEMMA NothingDeployed ==
    ASSUME PolicyFits, history' = history, ~Deploys
    PROVE  LeashedDeployment
  <1>1. Len(history) \in Nat
    BY DEF PolicyFits
  <1> QED
    BY <1>1 DEF LeashedDeployment

(* An allocation keeps it: what reaches the adapter is within the share of    *)
(* what the vault holds then, and of what the movement lost.                  *)
LEMMA AllocationIsLeashed ==
    ASSUME VaultFits, PolicyFits, NEW caller \in Callers, NEW n \in Nat, ExecuteAllocate(caller, n)
    PROVE  PolicyFits' /\ LeashedDeployment
  <1>1. idle \in Nat /\ deployed \in Nat /\ slippage \in Nat /\ totalAssets = idle + deployed
    BY StrategyVaultAssumption DEF VaultFits, VaultTypeOK, totalAssets
  <1>2. totalAssets \in Nat
    BY <1>1
  <1>3. /\ PolicyFits'
        /\ ~paused /\ now < expiresAt
        /\ history' # <<>> /\ history'[Len(history')].keeper \in keepers \union {creator}
        /\ deployed + n <= Share(totalAssets, maxAllocationBps)
    BY <1>1, <1>2, AllocationIsEntered DEF ExecuteAllocate
  <1>4. PICK d \in 0 .. deployed + n : d + slippage >= deployed + n /\ deployed' = d
    BY DEF ExecuteAllocate, AllocateToAdapter
  <1>5. n <= idle /\ idle' = idle - n
    BY DEF ExecuteAllocate, AllocateToAdapter
  <1>6. totalAssets' = (idle - n) + d
    BY <1>4, <1>5 DEF totalAssets
  <1> DEFINE after == ((idle - n) + d) + slippage
  <1>7. after \in Nat /\ totalAssets <= after /\ d \in Nat /\ d <= deployed + n
    BY <1>1, <1>4, <1>5
  <1> HIDE DEF after
  <1>8. Share(totalAssets, maxAllocationBps) <= Share(after, maxAllocationBps)
        /\ Share(totalAssets, maxAllocationBps) \in Nat
    BY <1>2, <1>7, PolicyExecutorAssumption, Shares
  <1>9. Share(after, maxAllocationBps) \in Nat
    BY <1>7, PolicyExecutorAssumption, Shares
  <1>10. d <= Share(after, maxAllocationBps)
    BY <1>1, <1>3, <1>7, <1>8, <1>9
  <1>11. deployed' <= Share(totalAssets' + slippage, maxAllocationBps)
    BY <1>4, <1>6, <1>10 DEF after
  <1> QED
    BY <1>3, <1>11 DEF LeashedDeployment

(* So does a recentering, which leaves the books of the vault fit.            *)
LEMMA RecenteringIsLeashed ==
    ASSUME VaultFits, PolicyFits, NEW caller \in Callers, ExecuteRecenter(caller)
    PROVE  VaultFits' /\ totalSupply' = totalSupply /\ PolicyFits' /\ LeashedDeployment
  <1>1. idle \in Nat /\ deployed \in Nat /\ slippage \in Nat /\ adapterOpen \in BOOLEAN
    BY StrategyVaultAssumption DEF VaultFits, VaultTypeOK
  <1>2. PICK lost \in Losses :
            LET total == idle + Realized(deployed, lost)
                target == Share(total, maxAllocationBps)
            IN  /\ AdapterPays(deployed, lost)
                /\ RecordAllocation(caller, target, total, 0)
                /\ idle' = total - target
                /\ deployed' \in {d \in 0 .. target : d + slippage >= target}
    BY DEF ExecuteRecenter
  <1> DEFINE total == idle + Realized(deployed, lost)
             target == Share(total, maxAllocationBps)
  <1>3. Realized(deployed, lost) \in Nat
    BY <1>1 DEF Realized, Losses
  <1>4. total \in Nat
    BY <1>1, <1>3
  <1>5. target \in Nat /\ target <= total
    BY <1>4, PolicyExecutorAssumption, Shares
  <1>6. RecordAllocation(caller, target, total, 0) /\ idle' = total - target
    BY <1>2
  <1>7. PICK d \in 0 .. target : d + slippage >= target /\ deployed' = d
    BY <1>2
  <1> HIDE DEF total, target
  <1>8. /\ PolicyFits'
        /\ ~paused /\ now < expiresAt
        /\ history' # <<>> /\ history'[Len(history')].keeper \in keepers \union {creator}
    BY <1>4, <1>5, <1>6, AllocationIsEntered
  <1>9. idle' \in Nat /\ deployed' \in Nat
    BY <1>4, <1>5, <1>6, <1>7
  <1>10. VaultFits' /\ totalSupply' = totalSupply
    BY <1>1, <1>9, AssetsMove DEF ExecuteRecenter, adapterVars, shareVars
  <1>11. totalAssets' = (total - target) + d
    BY <1>6, <1>7 DEF totalAssets
  <1> DEFINE after == ((total - target) + d) + slippage
  <1>12. after \in Nat /\ total <= after /\ d \in Nat /\ d <= target
    BY <1>1, <1>4, <1>5, <1>7
  <1> HIDE DEF after
  <1>13. target <= Share(after, maxAllocationBps)
    BY <1>4, <1>12, PolicyExecutorAssumption, Shares DEF target
  <1>14. Share(after, maxAllocationBps) \in Nat
    BY <1>12, PolicyExecutorAssumption, Shares
  <1>15. d <= Share(after, maxAllocationBps)
    BY <1>5, <1>12, <1>13, <1>14
  <1>16. deployed' <= Share(totalAssets' + slippage, maxAllocationBps)
    BY <1>7, <1>11, <1>15 DEF after
  <1> QED
    BY <1>8, <1>10, <1>16 DEF LeashedDeployment

(* Every step of the policy keeps the leash and the books.                    *)
LEMMA PolicyStepIsLeashed ==
    ASSUME VaultFits, PolicyFits, PolicyStep
    PROVE  VaultFits' /\ totalSupply' = totalSupply /\ PolicyFits' /\ LeashedDeployment
  <1> DEFINE Goal == VaultFits' /\ totalSupply' = totalSupply /\ PolicyFits' /\ LeashedDeployment
  <1>0. /\ idle \in Nat /\ deployed \in Nat /\ slippage \in Nat /\ adapterOpen \in BOOLEAN
        /\ now \in Nat /\ now <= now /\ Moves \subseteq Nat
    BY StrategyVaultAssumption, PolicyExecutorAssumption DEF VaultFits, VaultTypeOK, PolicyFits
  <1>1. ASSUME \/ \E keeper \in KeeperAccounts, allowed \in BOOLEAN : SetKeeper(keeper, allowed)
               \/ \E flag \in BOOLEAN : SetPaused(flag)
               \/ \E expiry \in Expiries : RenewPolicy(expiry)
        PROVE  Goal
    <2>1. UNCHANGED vaultVars /\ UNCHANGED <<now, dayStartedAt, spentToday, history>>
      BY <1>1 DEF SetKeeper, SetPaused, RenewPolicy
    <2>2. VaultFits' /\ totalSupply' = totalSupply
      BY <1>0, <2>1, AssetsMove DEF vaultVars, adapterVars, shareVars
    <2>3. PolicyFits'
      BY <1>0, <2>1, PolicyWaits
    <2>4. ~Deploys
      BY <1>0, <2>1 DEF Deploys, vaultVars
    <2> QED
      BY <2>1, <2>2, <2>3, <2>4, NothingDeployed
  <1>2. ASSUME NEW caller \in Callers, NEW n \in Moves, ExecuteAllocate(caller, n) PROVE Goal
    <2>1. AllocateToAdapter(n) /\ n \in Nat
      BY <1>0, <1>2 DEF ExecuteAllocate
    <2> QED
      BY <1>2, <2>1, ExecutorMoves, AllocationIsLeashed
  <1>3. ASSUME NEW caller \in Callers, NEW n \in Nat, ExecuteRecall(caller, n) PROVE Goal
    <2>1. RecallFromAdapter(n) /\ UNCHANGED <<now, policyVars>>
      BY <1>3 DEF ExecuteRecall
    <2>2. VaultFits' /\ totalSupply' = totalSupply
      BY <2>1, ExecutorMoves
    <2>3. UNCHANGED <<now, dayStartedAt, spentToday, history>>
      BY <2>1 DEF policyVars
    <2>4. PolicyFits'
      BY <1>0, <2>3, PolicyWaits
    <2>5. ~Deploys
      <3>1. PICK lost \in Losses : Recalled(n, lost) /\ idle' = idle + Realized(n, lost)
        BY <2>1 DEF RecallFromAdapter
      <3>2. Realized(n, lost) \in Nat
        BY <1>0, <3>1, RecallMoves
      <3>3. ~(idle + Realized(n, lost) < idle)
        BY <1>0, <3>2
      <3> QED
        BY <3>1, <3>3 DEF Deploys
    <2> QED
      BY <2>2, <2>3, <2>4, <2>5, NothingDeployed
  <1>4. ASSUME NEW caller \in Callers, ExecuteRecenter(caller) PROVE Goal
    BY <1>4, RecenteringIsLeashed
  <1>5. ASSUME NEW caller \in Callers, ExecuteRecallAll(caller) PROVE Goal
    BY <1>0, <1>3, <1>5 DEF ExecuteRecallAll
  <1> HIDE DEF Goal
  <1>6. Goal
    BY <1>0, <1>1, <1>2, <1>3, <1>4, <1>5 DEF PolicyStep
  <1> QED
    BY <1>6 DEF Goal

(* Every step of the vault, leashed or not, leaves all books fit; a leashed   *)
(* one keeps the leash, and only a holder's call moves shares.                *)
LEMMA InstanceStep ==
    ASSUME VaultFits, PolicyFits, [MCNext]_<<vars, leashed>>
    PROVE  /\ VaultFits' /\ PolicyFits'
           /\ totalSupply' # totalSupply => \E h \in Holders : Call(h)
           /\ leashed => LeashedDeployment
  <1> DEFINE Goal == /\ VaultFits' /\ PolicyFits'
                     /\ totalSupply' # totalSupply => \E h \in Holders : Call(h)
                     /\ leashed => LeashedDeployment
  <1>0. /\ idle \in Nat /\ deployed \in Nat /\ adapterOpen \in BOOLEAN
        /\ now \in Nat /\ now <= now /\ now + 1 \in Nat /\ now <= now + 1
        /\ DepositCap \in Nat /\ Depositor \in Holders
    BY StrategyVaultAssumption, StrategyVaultMCAssumption DEF VaultFits, VaultTypeOK, PolicyFits
  <1>1. ASSUME PolicyStep PROVE Goal
    BY <1>1, PolicyStepIsLeashed
  <1>2. ASSUME UNCHANGED <<now, policyVars>> PROVE PolicyFits' /\ history' = history
    <2>1. UNCHANGED <<now, dayStartedAt, spentToday, history>>
      BY <1>2 DEF policyVars
    <2> QED
      BY <1>0, <2>1, PolicyWaits
  <1>3. ASSUME DepositorStep, UNCHANGED <<now, policyVars>> PROVE Goal
    <2>1. Call(Depositor)
      BY <1>0, <1>3 DEF DepositorStep, Call
    <2>2. ~(deployed' > deployed)
      <3>1. deployed' = deployed \/ deployed' = 0
        BY <1>3 DEF DepositorStep, Deposit, RedeemAll
      <3> QED
        BY <1>0, <3>1
    <2> QED
      BY <1>0, <1>2, <1>3, <2>1, <2>2, CallsFit, NothingDeployed DEF Deploys
  <1>4. ASSUME NEW open \in BOOLEAN, SetAdapterOpen(open), UNCHANGED <<now, policyVars>> PROVE Goal
    <2>1. VaultFits' /\ totalSupply' = totalSupply
      BY <1>0, <1>4, AssetsMove DEF SetAdapterOpen, shareVars
    <2>2. ~Deploys
      BY <1>0, <1>4 DEF Deploys, SetAdapterOpen
    <2> QED
      BY <1>2, <1>4, <2>1, <2>2, NothingDeployed
  <1>5. ASSUME Tick PROVE Goal
    <2>1. UNCHANGED vaultVars /\ UNCHANGED <<dayStartedAt, spentToday, history>> /\ now' = now + 1
      BY <1>5 DEF Tick, policyVars
    <2>2. VaultFits' /\ totalSupply' = totalSupply
      BY <1>0, <2>1, AssetsMove DEF vaultVars, adapterVars, shareVars
    <2>3. ~Deploys
      BY <1>0, <2>1 DEF Deploys, vaultVars
    <2> QED
      BY <1>0, <2>1, <2>2, <2>3, PolicyWaits, NothingDeployed
  <1>6. ASSUME VaultNext, UNCHANGED <<now, policyVars>>, ~leashed PROVE Goal
    BY <1>2, <1>6, VaultStaysFit
  <1>7. ASSUME UNCHANGED <<vars, leashed>> PROVE Goal
    <2>1. UNCHANGED vaultVars /\ UNCHANGED <<now, policyVars>>
      BY <1>7 DEF vars
    <2>2. VaultFits' /\ totalSupply' = totalSupply
      BY <1>0, <2>1, AssetsMove DEF vaultVars, adapterVars, shareVars
    <2>3. ~Deploys
      BY <1>0, <2>1 DEF Deploys, vaultVars
    <2> QED
      BY <1>2, <2>1, <2>2, <2>3, NothingDeployed
  <1> HIDE DEF Goal
  <1>8. Goal
    BY <1>1, <1>3, <1>4, <1>5, <1>6, <1>7 DEF MCNext, LeashedNext, UnleashedNext
  <1> QED
    BY <1>8 DEF Goal

(* At the start the books are empty.                                          *)
LEMMA InstanceStartsFit ==
    ASSUME MCInit PROVE VaultFits /\ PolicyFits
  <1>1. VaultFits
    BY VaultStartsFit DEF MCInit, Init
  <1>2. now = 1 /\ dayStartedAt = now /\ spentToday = 0 /\ history = <<>>
    BY DEF MCInit, Init
  <1>3. DayBook(history, <<>>, dayStartedAt, spentToday, now)
    BY <1>2, DayBookEmpty
  <1>4. history \in Seq(Entries)
    BY <1>2
  <1>5. now \in Nat /\ dayStartedAt \in Nat /\ dayStartedAt <= now /\ spentToday \in Nat
    BY <1>2
  <1> QED
    BY <1>1, <1>3, <1>4, <1>5 DEF PolicyFits

------------------------------------------------------------------------------
(* The vault with its executor, for any limits, cooldown and length of a day. *)

(* The books of the vault and of its policy stay fit.                         *)
THEOREM InstanceFits == MCSpec => [](VaultFits /\ PolicyFits)
  <1>1. MCInit => VaultFits /\ PolicyFits
    BY InstanceStartsFit
  <1>2. VaultFits /\ PolicyFits /\ [MCNext]_<<vars, leashed>> => (VaultFits /\ PolicyFits)'
    BY InstanceStep
  <1> QED
    BY <1>1, <1>2, PTL DEF MCSpec

(* No allocation leaves the leash, and no day of the policy's history moves   *)
(* more than two of its budgets.                                              *)
THEOREM LeashKept == MCSpec => OnlyLeashedDeployments
  <1>1. VaultFits /\ PolicyFits => AnyDayMovesTwoBudgets
    BY FitsMoveTwoBudgets
  <1>2. VaultFits /\ PolicyFits /\ [MCNext]_<<vars, leashed>> => [leashed => LeashedDeployment]_vars
    BY InstanceStep
  <1> QED
    BY <1>1, <1>2, InstanceFits, PTL DEF MCSpec, OnlyLeashedDeployments

(* Under either executor the holders are spared each other's calls.           *)
THEOREM OthersSparedByEither == MCSpec => OthersPayOnlySlippage
  <1>1. VaultFits /\ PolicyFits /\ [MCNext]_<<vars, leashed>>
        => [totalSupply' # totalSupply =>
              \A h \in Holders : balanceOf'[h] = balanceOf[h] =>
                AssetsDown(balanceOf[h])' + slippage >= AssetsDown(balanceOf[h])]_vaultVars
    BY InstanceStep, CallSparesOthers
  <1> QED
    BY <1>1, InstanceFits, PTL DEF MCSpec, OthersPayOnlySlippage

(* And under either the last share closes the position.                       *)
THEOREM LastShareClosesEither == MCSpec => LastShareClosesPosition
  <1>1. VaultFits /\ PolicyFits /\ [MCNext]_<<vars, leashed>>
        => [totalSupply # 0 /\ totalSupply' = 0 => deployed' = 0]_vaultVars
    <2>1. SUFFICES ASSUME VaultFits, PolicyFits, [MCNext]_<<vars, leashed>>,
                          totalSupply # 0, totalSupply' = 0
          PROVE  deployed' = 0
      OBVIOUS
    <2>2. PICK h \in Holders : Call(h)
      BY <2>1, InstanceStep
    <2> QED
      BY <2>1, <2>2, LastShareCloses
  <1> QED
    BY <1>1, InstanceFits, PTL DEF MCSpec, LastShareClosesPosition
=============================================================================
