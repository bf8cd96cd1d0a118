----------------------------- MODULE CrcCatalogue -----------------------------
(***************************************************************************)
(* Every CRC that CRC.h defines, each with the check value its comment     *)
(* documents: the CRC of the nine characters "123456789".  The game process*)
(* uses CRC_16_ARC and CRC_32 only; the others take the branches of the    *)
(* computation these two do not reach.                                     *)
(***************************************************************************)
EXTENDS Crc

CRC_4_ITU ==
  Parameters(8, 4, <<\h0003>>, <<0>>, <<0>>, TRUE, TRUE, <<\h0007>>)

CRC_5_EPC ==
  Parameters(8, 5, <<\h0009>>, <<\h0009>>, <<0>>, FALSE, FALSE, <<0>>)

CRC_5_ITU ==
  Parameters(8, 5, <<\h0015>>, <<0>>, <<0>>, TRUE, TRUE, <<\h0007>>)

CRC_5_USB ==
  Parameters(8, 5, <<\h0005>>, <<\h001F>>, <<\h001F>>, TRUE, TRUE, <<\h0019>>)

CRC_6_CDMA2000A ==
  Parameters(8, 6, <<\h0027>>, <<\h003F>>, <<0>>, FALSE, FALSE, <<\h000D>>)

CRC_6_CDMA2000B ==
  Parameters(8, 6, <<\h0007>>, <<\h003F>>, <<0>>, FALSE, FALSE, <<\h003B>>)

CRC_6_ITU ==
  Parameters(8, 6, <<\h0003>>, <<0>>, <<0>>, TRUE, TRUE, <<\h0006>>)

CRC_7 ==
  Parameters(8, 7, <<\h0009>>, <<0>>, <<0>>, FALSE, FALSE, <<\h0075>>)

CRC_8 ==
  Parameters(8, 8, <<\h0007>>, <<0>>, <<0>>, FALSE, FALSE, <<\h00F4>>)

CRC_8_EBU ==
  Parameters(8, 8, <<\h001D>>, <<\h00FF>>, <<0>>, TRUE, TRUE, <<\h0097>>)

CRC_8_MAXIM ==
  Parameters(8, 8, <<\h0031>>, <<0>>, <<0>>, TRUE, TRUE, <<\h00A1>>)

CRC_8_WCDMA ==
  Parameters(8, 8, <<\h009B>>, <<0>>, <<0>>, TRUE, TRUE, <<\h0025>>)

CRC_10 ==
  Parameters(16, 10, <<\h0233>>, <<0>>, <<0>>, FALSE, FALSE, <<\h0199>>)

CRC_10_CDMA2000 ==
  Parameters(16, 10, <<\h03D9>>, <<\h03FF>>, <<0>>, FALSE, FALSE, <<\h0233>>)

CRC_11 ==
  Parameters(16, 11, <<\h0385>>, <<\h001A>>, <<0>>, FALSE, FALSE, <<\h05A3>>)

CRC_12_CDMA2000 ==
  Parameters(16, 12, <<\h0F13>>, <<\h0FFF>>, <<0>>, FALSE, FALSE, <<\h0D4D>>)

CRC_12_DECT ==
  Parameters(16, 12, <<\h080F>>, <<0>>, <<0>>, FALSE, FALSE, <<\h0F5B>>)

CRC_12_UMTS ==
  Parameters(16, 12, <<\h080F>>, <<0>>, <<0>>, FALSE, TRUE, <<\h0DAF>>)

CRC_13_BBC ==
  Parameters(16, 13, <<\h1CF5>>, <<0>>, <<0>>, FALSE, FALSE, <<\h04FA>>)

CRC_15 ==
  Parameters(16, 15, <<\h4599>>, <<0>>, <<0>>, FALSE, FALSE, <<\h059E>>)

CRC_15_MPT1327 ==
  Parameters(16, 15, <<\h6815>>, <<0>>, <<\h0001>>, FALSE, FALSE, <<\h2566>>)

CRC_16_BUYPASS ==
  Parameters(16, 16, <<\h8005>>, <<0>>, <<0>>, FALSE, FALSE, <<\hFEE8>>)

CRC_16_CCITTFALSE ==
  Parameters(16, 16, <<\h1021>>, <<\hFFFF>>, <<0>>, FALSE, FALSE, <<\h29B1>>)

CRC_16_CDMA2000 ==
  Parameters(16, 16, <<\hC867>>, <<\hFFFF>>, <<0>>, FALSE, FALSE, <<\h4C06>>)

CRC_16_CMS ==
  Parameters(16, 16, <<\h8005>>, <<\hFFFF>>, <<0>>, FALSE, FALSE, <<\hAEE7>>)

CRC_16_DECTR ==
  Parameters(16, 16, <<\h0589>>, <<0>>, <<\h0001>>, FALSE, FALSE, <<\h007E>>)

CRC_16_DECTX ==
  Parameters(16, 16, <<\h0589>>, <<0>>, <<0>>, FALSE, FALSE, <<\h007F>>)

CRC_16_DNP ==
  Parameters(16, 16, <<\h3D65>>, <<0>>, <<\hFFFF>>, TRUE, TRUE, <<\hEA82>>)

CRC_16_GENIBUS ==
  Parameters(16, 16, <<\h1021>>, <<\hFFFF>>,
             <<\hFFFF>>, FALSE, FALSE, <<\hD64E>>)

CRC_16_KERMIT ==
  Parameters(16, 16, <<\h1021>>, <<0>>, <<0>>, TRUE, TRUE, <<\h2189>>)

CRC_16_MAXIM ==
  Parameters(16, 16, <<\h8005>>, <<0>>, <<\hFFFF>>, TRUE, TRUE, <<\h44C2>>)

CRC_16_MODBUS ==
  Parameters(16, 16, <<\h8005>>, <<\hFFFF>>, <<0>>, TRUE, TRUE, <<\h4B37>>)

CRC_16_T10DIF ==
  Parameters(16, 16, <<\h8BB7>>, <<0>>, <<0>>, FALSE, FALSE, <<\hD0DB>>)

CRC_16_USB ==
  Parameters(16, 16, <<\h8005>>, <<\hFFFF>>,
             <<\hFFFF>>, TRUE, TRUE, <<\hB4C8>>)

CRC_16_X25 ==
  Parameters(16, 16, <<\h1021>>, <<\hFFFF>>,
             <<\hFFFF>>, TRUE, TRUE, <<\h906E>>)

CRC_16_XMODEM ==
  Parameters(16, 16, <<\h1021>>, <<0>>, <<0>>, FALSE, FALSE, <<\h31C3>>)

CRC_17_CAN ==
  Parameters(32, 17, <<\h0001, \h685B>>, <<0, 0>>,
             <<0, 0>>, FALSE, FALSE, <<0, \h4F03>>)

CRC_21_CAN ==
  Parameters(32, 21, <<\h0010, \h2899>>, <<0, 0>>,
             <<0, 0>>, FALSE, FALSE, <<\h000E, \hD841>>)

CRC_24 ==
  Parameters(32, 24, <<\h0086, \h4CFB>>, <<\h00B7, \h04CE>>,
             <<0, 0>>, FALSE, FALSE, <<\h0021, \hCF02>>)

CRC_24_FLEXRAYA ==
  Parameters(32, 24, <<\h005D, \h6DCB>>, <<\h00FE, \hDCBA>>,
             <<0, 0>>, FALSE, FALSE, <<\h0079, \h79BD>>)

CRC_24_FLEXRAYB ==
  Parameters(32, 24, <<\h005D, \h6DCB>>, <<\h00AB, \hCDEF>>,
             <<0, 0>>, FALSE, FALSE, <<\h001F, \h23B8>>)

CRC_30 ==
  Parameters(32, 30, <<\h2030, \hB9C7>>, <<\h3FFF, \hFFFF>>,
             <<0, 0>>, FALSE, FALSE, <<\h3B3C, \hB540>>)

CRC_32_BZIP2 ==
  Parameters(32, 32, <<\h04C1, \h1DB7>>, <<\hFFFF, \hFFFF>>,
             <<\hFFFF, \hFFFF>>, FALSE, FALSE, <<\hFC89, \h1918>>)

CRC_32_C ==
  Parameters(32, 32, <<\h1EDC, \h6F41>>, <<\hFFFF, \hFFFF>>,
             <<\hFFFF, \hFFFF>>, TRUE, TRUE, <<\hE306, \h9283>>)

CRC_32_MPEG2 ==
  Parameters(32, 32, <<\h04C1, \h1DB7>>, <<\hFFFF, \hFFFF>>,
             <<0, 0>>, FALSE, FALSE, <<\h0376, \hE6E7>>)

CRC_32_POSIX ==
  Parameters(32, 32, <<\h04C1, \h1DB7>>, <<0, 0>>,
             <<\hFFFF, \hFFFF>>, FALSE, FALSE, <<\h765E, \h7680>>)

CRC_32_Q ==
  Parameters(32, 32, <<\h8141, \h41AB>>, <<0, 0>>,
             <<0, 0>>, FALSE, FALSE, <<\h3010, \hBF7F>>)

CRC_40_GSM ==
  Parameters(64, 40, <<0, 0, \h0482, \h0009>>, <<0, 0, 0, 0>>,
             <<0, \h00FF, \hFFFF, \hFFFF>>, FALSE, FALSE,
             <<0, \h00D4, \h164F, \hC646>>)

CRC_64 ==
  Parameters(64, 64, <<\h42F0, \hE1EB, \hA9EA, \h3693>>, <<0, 0, 0, 0>>,
             <<0, 0, 0, 0>>, FALSE, FALSE, <<\h6C40, \hDF5F, \h0B49, \h7347>>)

-----------------------------------------------------------------------------

Catalogue ==
  {CRC_4_ITU, CRC_5_EPC, CRC_5_ITU, CRC_5_USB, CRC_6_CDMA2000A,
   CRC_6_CDMA2000B, CRC_6_ITU, CRC_7, CRC_8, CRC_8_EBU, CRC_8_MAXIM,
   CRC_8_WCDMA, CRC_10, CRC_10_CDMA2000, CRC_11, CRC_12_CDMA2000,
   CRC_12_DECT, CRC_12_UMTS, CRC_13_BBC, CRC_15, CRC_15_MPT1327,
   CRC_16_ARC, CRC_16_BUYPASS, CRC_16_CCITTFALSE, CRC_16_CDMA2000,
   CRC_16_CMS, CRC_16_DECTR, CRC_16_DECTX, CRC_16_DNP, CRC_16_GENIBUS,
   CRC_16_KERMIT, CRC_16_MAXIM, CRC_16_MODBUS, CRC_16_T10DIF,
   CRC_16_USB, CRC_16_X25, CRC_16_XMODEM, CRC_17_CAN, CRC_21_CAN,
   CRC_24, CRC_24_FLEXRAYA, CRC_24_FLEXRAYB, CRC_30, CRC_32,
   CRC_32_BZIP2, CRC_32_C, CRC_32_MPEG2, CRC_32_POSIX, CRC_32_Q,
   CRC_40_GSM, CRC_64}

\* The characters "1" to "9": ASCII codes 49 to 57.
CheckInput == [i \in 1 .. 9 |-> Low(Word(<<48 + i>>), CHAR_BIT)]
=============================================================================
